---- MODULE Spec2Model ----
(***************************************************************************)
(* HELIOS converter: the HNFv9 container writer (converter/src/hnf).       *)
(*                                                                         *)
(* The output file is a sequence of bytes.  HnfWriter appends to it with   *)
(* write_all and, in finalize, seeks to 0 and rewrites the 64-byte header  *)
(* and the 512-byte block table.  Readers see only the bytes of the file,  *)
(* so the properties below parse the header and the block table back from  *)
(* the bytes (Stored... operators), as validate.rs and inspect.rs do.      *)
(*                                                                         *)
(* Not modelled: I/O failures of write_all/seek/flush (every `?` on an I/O *)
(* call succeeds), and the name/dtype/shape/numel fields of a tensor       *)
(* manifest entry (they are copied from the arguments and never read       *)
(* back by the writer).                                                    *)
(***************************************************************************)
EXTENDS Integers, Sequences, FiniteSets, Bags, TLC

(***************************************************************************)
(* Bounds of the exploration.                                              *)
(***************************************************************************)
\* Calls of write_tensor / write_block / finalize_block made before finalize.
MaxCalls == 3
\* The same, in the specification that draws block ids from all sixteen slots.
MaxCallsAll == 1

\* Block ids handed to the writer under Spec: vision, tokenizer, and one id
\* that is out of range.
BlockIds == {1, 9, 16}
\* Block ids handed to the writer under SpecAll: every slot and one bad id.
AllBlockIds == 0..16
\* Payloads handed to write_tensor / write_block (empty, 2 bytes).
Payloads == {<<>>, <<7, 9>>}
\* Payloads under SpecAll.
PayloadsAll == {<<>>, <<7>>}
\* Result of serde_json::to_vec_pretty(&manifest): "null".
ManifestBytes == {<<110, 117, 108, 108>>}

(***************************************************************************)
(* header.rs: constants.                                                   *)
(***************************************************************************)
MAGIC == <<72, 78, 70, 118, 57, 0, 0, 0>>
VERSION_MAJOR == 9
VERSION_MINOR == 1
BLOCK_COUNT == 16
HEADER_SIZE == 64

BLOCK_VISION == 1
BLOCK_AUDIO == 2
BLOCK_VIDEO == 3
BLOCK_SPATIAL_3D == 4
BLOCK_PERSONALITY == 5
BLOCK_MEMORY == 6
BLOCK_CORTEX == 7
BLOCK_CODE_EXEC == 8
BLOCK_TOKENIZER == 9
BLOCK_EXEC_HINTS_BIN == 11
BLOCK_TOOLS == 12
BLOCK_EXPERT_ROUTER == 13

\* HeaderFlags: each flag is the value 1 << bit.
HAS_VISION == 1
HAS_AUDIO == 2
HAS_VIDEO == 4
HAS_SPATIAL == 8
HAS_PERSONALITY == 16
HAS_MEMORY == 32
HAS_CORTEX == 64
HAS_CODE_EXEC == 128
HAS_TOKENIZER == 256
HAS_EXEC_HINTS_BIN == 512
HAS_TOOLS == 1024
HAS_EXPERT_ROUTER == 2048
IS_MULTIMODAL == 8192

\* HeaderFlags::has: (self.0 & flag) != 0, for a one-bit flag.
FlagsHas(flags, flag) == (flags \div flag) % 2 = 1
\* HeaderFlags::set: self.0 |= flag, for a one-bit flag.
FlagsSet(flags, flag) == IF FlagsHas(flags, flag) THEN flags ELSE flags + flag

(***************************************************************************)
(* Little-endian encoding (byteorder::WriteBytesExt) and decoding.         *)
(***************************************************************************)
RECURSIVE LEBytes(_, _)
LEBytes(v, n) == IF n = 0 THEN <<>> ELSE <<v % 256>> \o LEBytes(v \div 256, n - 1)

RECURSIVE LEValue(_, _, _)
\* The unsigned integer stored little-endian in bytes[off+1 .. off+n].
LEValue(bytes, off, n) ==
    IF n = 0 THEN 0 ELSE bytes[off + 1] + 256 * LEValue(bytes, off + 1, n - 1)

Zeros(n) == [i \in 1..n |-> 0]

(***************************************************************************)
(* Hash primitives.  XXH3-64 (xxhash_rust) and CRC-32 (crc32fast) are      *)
(* library functions.  They are modelled by position-weighted checksums    *)
(* that, like the originals, depend on every byte, on its position and on  *)
(* the length of the input.  The streaming hasher satisfies                *)
(* digest(update(update(new, a), b)) = xxh3_64(a ++ b); xxh3_64 of the     *)
(* empty input is not 0 and the CRC-32 of the empty input is 0, as in the  *)
(* libraries.                                                              *)
(***************************************************************************)
\* Sum over i of (base + i) * (data[i] + 1): the sum of the counts of a bag.
WeightedSum(data, base) ==
    BagCardinality([i \in 1..Len(data) |-> (base + i) * (data[i] + 1)])

\* Option<Xxh3>: None, and the streaming state (bytes absorbed, running sum).
None == [some |-> FALSE, len |-> 0, acc |-> 0]
Xxh3_new == [some |-> TRUE, len |-> 0, acc |-> 0]
Xxh3_update(hasher, data) ==
    [hasher EXCEPT !.len = @ + Len(data),
                   !.acc = (@ + WeightedSum(data, hasher.len)) % 65521]
Xxh3_digest(hasher) == ((hasher.acc + 7 * hasher.len) % 65521) + 1
xxh3_64(data) == Xxh3_digest(Xxh3_update(Xxh3_new, data))
crc32fast_hash(data) == WeightedSum(data, 0) % 65521

(***************************************************************************)
(* header.rs: HnfHeader, BlockEntry, BlockTable and their serialisation.   *)
(***************************************************************************)
HnfHeader_default ==
    [magic |-> MAGIC, version_major |-> VERSION_MAJOR,
     version_minor |-> VERSION_MINOR, flags |-> 0,
     block_count |-> BLOCK_COUNT, header_size |-> HEADER_SIZE,
     block_table_offset |-> HEADER_SIZE, manifest_offset |-> 0,
     manifest_size |-> 0, file_size |-> 0, checksum |-> 0, reserved |-> 0]

HnfHeader_to_bytes(h) ==
    h.magic \o LEBytes(h.version_major, 2) \o LEBytes(h.version_minor, 2)
      \o LEBytes(h.flags, 4) \o LEBytes(h.block_count, 4)
      \o LEBytes(h.header_size, 4) \o LEBytes(h.block_table_offset, 8)
      \o LEBytes(h.manifest_offset, 8) \o LEBytes(h.manifest_size, 8)
      \o LEBytes(h.file_size, 8) \o LEBytes(h.checksum, 4)
      \o LEBytes(h.reserved, 4)

BlockTable_default ==
    [i \in 0..15 |-> [block_id |-> i, block_type |-> i,
                      offset |-> 0, size |-> 0, checksum |-> 0]]

BlockEntry_to_bytes(e) ==
    LEBytes(e.block_id, 4) \o LEBytes(e.block_type, 4) \o LEBytes(e.offset, 8)
      \o LEBytes(e.size, 8) \o LEBytes(e.checksum, 8)

RECURSIVE BlockTable_to_bytes_from(_, _)
BlockTable_to_bytes_from(bt, i) ==
    IF i > 15 THEN <<>>
    ELSE BlockEntry_to_bytes(bt[i]) \o BlockTable_to_bytes_from(bt, i + 1)

BlockTable_to_bytes(bt) == BlockTable_to_bytes_from(bt, 0)

\* HnfHeader::from_bytes on the bytes data[1..64].
HnfHeader_from_bytes(data) ==
    [magic |-> SubSeq(data, 1, 8),
     version_major |-> LEValue(data, 8, 2), version_minor |-> LEValue(data, 10, 2),
     flags |-> LEValue(data, 12, 4), block_count |-> LEValue(data, 16, 4),
     header_size |-> LEValue(data, 20, 4),
     block_table_offset |-> LEValue(data, 24, 8),
     manifest_offset |-> LEValue(data, 32, 8),
     manifest_size |-> LEValue(data, 40, 8), file_size |-> LEValue(data, 48, 8),
     checksum |-> LEValue(data, 56, 4), reserved |-> LEValue(data, 60, 4)]

\* BlockEntry::from_bytes on the 32 bytes that follow data[start].
BlockEntry_from_bytes(data, start) ==
    [block_id |-> LEValue(data, start, 4), block_type |-> LEValue(data, start + 4, 4),
     offset |-> LEValue(data, start + 8, 8), size |-> LEValue(data, start + 16, 8),
     checksum |-> LEValue(data, start + 24, 8)]

\* BlockTable::from_bytes on the 512 bytes that follow data[base].
BlockTable_from_bytes(data, base) ==
    [i \in 0..15 |-> BlockEntry_from_bytes(data, base + i * 32)]

(***************************************************************************)
(* State of one HnfWriter and of its output file.                          *)
(***************************************************************************)
VARIABLES
    file,              \* the bytes of the output file
    header,            \* HnfWriter.header
    block_table,       \* HnfWriter.block_table.entries
    current_offset,    \* HnfWriter.current_offset
    tensor_manifests,  \* HnfWriter.tensor_manifests
    block_hashers,     \* HnfWriter.block_hashers
    finalized,         \* finalize has consumed the writer
    last,              \* the last call: operation, block id, Ok or Err
    calls,             \* number of calls made before finalize
    last_slot,         \* history: highest valid block id written so far
    in_order,          \* history: no write went to a lower id than an earlier one
    committed          \* history: slots whose hash finalize_block has committed

(***************************************************************************)
(* State of one HTFWriter (htf/mod.rs) and the value returned by build.    *)
(***************************************************************************)
VARIABLES
    domains,           \* HTFWriter.domains
    use_v13,           \* HTFWriter.use_v13
    blob               \* the Vec<u8> returned by the last call, if it was build

(***************************************************************************)
(* State of one call of quantize (hqs/mod.rs): its arguments, the results  *)
(* of its parallel tasks, and the value it returns.                        *)
(***************************************************************************)
VARIABLES
    input,             \* the argument data: &[f32]
    mse_mode,          \* the argument use_mse
    format,            \* the format, by its bits: 4 for HQ4K, 5 for HQ5K
    params,            \* per super-block, the GroupParams collected so far
    results,           \* per super-block, the record collected so far
    output,            \* the Vec<u8> returned
    returned,          \* the call has returned
    reordered          \* history: a task completed before one of lower index

(***************************************************************************)
(* State of the packing of one payload and of its unpacking.               *)
(***************************************************************************)
VARIABLES
    indices,           \* the indices q_indices of one super-block
    payload,           \* the payload bytes packed from them
    unpacked           \* the indices read back from the payload

(***************************************************************************)
(* State of one call of dequantize (hqs/mod.rs).                           *)
(***************************************************************************)
VARIABLES
    encoded,           \* the argument data: &[u8]
    wanted_len,        \* the argument numel; -1 before the call
    decoded            \* the Vec<f32> returned, every value times q_max

(***************************************************************************)
(* State of the calls of resolve_tensor_name (builder.rs) on one name.     *)
(***************************************************************************)
VARIABLES
    tensor_name,       \* the canonical name, a sequence of characters
    name_block,        \* the target block
    resolved           \* the values returned so far, each call on the last one

(***************************************************************************)
(* The command line of the converter driver (main.rs).                     *)
(***************************************************************************)
VARIABLES
    models             \* the blocks for which a model path was given

(***************************************************************************)
(* State of a call of validate_htf (htf/validate.rs).                      *)
(***************************************************************************)
VARIABLES
    checked,           \* the bytes handed to validate_htf
    report             \* what the call gave back; <<>> before the call

hnf_vars == <<file, header, block_table, current_offset, tensor_manifests,
              block_hashers, finalized, last, calls, last_slot, in_order,
              committed>>

htf_vars == <<domains, use_v13, blob>>

hqs_vars == <<input, mse_mode, format, params, results, output, returned,
              reordered>>

pack_vars == <<indices, payload, unpacked>>

dec_vars == <<encoded, wanted_len, decoded>>

\* The state of the operations beside the writers and the quantizer.
name_vars == <<tensor_name, name_block, resolved>>

driver_vars == <<models>>

validate_vars == <<checked, report>>

rest_vars == <<dec_vars, name_vars, driver_vars, validate_vars>>

vars == <<hnf_vars, htf_vars, hqs_vars, pack_vars, rest_vars>>

history_vars == <<last_slot, in_order, committed>>

writer_vars == <<file, header, block_table, current_offset, tensor_manifests,
                 block_hashers>>

\* HnfWriter::create
HnfWriter_create ==
    /\ file = HnfHeader_to_bytes(HnfHeader_default)
                \o BlockTable_to_bytes(BlockTable_default)
    /\ header = HnfHeader_default
    /\ block_table = BlockTable_default
    /\ current_offset = HEADER_SIZE + 512
    /\ tensor_manifests = [i \in 0..15 |-> <<>>]
    /\ block_hashers = [i \in 0..15 |-> None]
    /\ finalized = FALSE
    /\ last = [op |-> "create", block_id |-> 0, ok |-> TRUE]
    /\ calls = 0
    /\ last_slot = -1
    /\ in_order = TRUE
    /\ committed = {}

\* HTFWriter::new: no domain yet, version 1.2; nothing built.
HTFWriter_new ==
    /\ domains = <<>>
    /\ use_v13 = FALSE
    /\ blob = <<>>

\* No call of quantize yet.
HqsIdle ==
    /\ input = <<>>
    /\ mse_mode = FALSE
    /\ format = 4
    /\ params = <<>>
    /\ results = <<>>
    /\ output = <<>>
    /\ returned = FALSE
    /\ reordered = FALSE

\* No call of dequantize yet.
DecIdle ==
    /\ encoded = <<>>
    /\ wanted_len = -1
    /\ decoded = <<>>

\* No name resolved yet.
NameIdle ==
    /\ tensor_name = <<>>
    /\ name_block = 0
    /\ resolved = <<>>

\* The driver has not parsed its arguments.
DriverIdle == models = {}

\* No call of validate_htf yet.
ValidateIdle == checked = <<>> /\ report = <<>>

RestIdle == DecIdle /\ NameIdle /\ DriverIdle /\ ValidateIdle

\* Nothing packed yet.
PackIdle ==
    /\ indices = <<>>
    /\ payload = <<>>
    /\ unpacked = <<>>

\* The converter after construction: a created HnfWriter, an unused HTFWriter,
\* no tensor quantized yet.
Init == HnfWriter_create /\ HTFWriter_new /\ HqsIdle /\ PackIdle /\ RestIdle

\* Variant of align_32 that writes the padding but leaves the cursor behind.
align_32_no_advance(w) ==
    LET remainder == w.current_offset % 32 IN
    IF remainder # 0
    THEN [file |-> w.file \o Zeros(32 - remainder),
          current_offset |-> w.current_offset]
    ELSE w

\* Variant of align_32 that pads to a multiple of 16.
align_32_to_16(w) ==
    LET remainder == w.current_offset % 16 IN
    IF remainder # 0
    THEN [file |-> w.file \o Zeros(16 - remainder),
          current_offset |-> w.current_offset + (16 - remainder)]
    ELSE w

\* HnfWriter::align_32 on the pair (file, current_offset).
align_32(w) ==
    LET remainder == w.current_offset % 32 IN
    IF remainder # 0
    THEN [file |-> w.file \o Zeros(32 - remainder),
          current_offset |-> w.current_offset + (32 - remainder)]
    ELSE w

\* History of the order of the accepted writes.
Ordered(block_id) ==
    /\ last_slot' = (IF block_id > last_slot THEN block_id ELSE last_slot)
    /\ in_order' = (in_order /\ block_id >= last_slot)
    /\ UNCHANGED committed

\* Variant of bail that is reached after the alignment padding was written.
bail_after_align(op, block_id) ==
    LET a == align_32([file |-> file, current_offset |-> current_offset])
    IN /\ last' = [op |-> op, block_id |-> block_id, ok |-> FALSE]
       /\ file' = a.file
       /\ current_offset' = a.current_offset
       /\ UNCHANGED <<header, block_table, tensor_manifests, block_hashers,
                      history_vars>>

\* write_block / write_tensor: `if block_id >= 16 { anyhow::bail!(..) }`.
bail(op, block_id) ==
    /\ last' = [op |-> op, block_id |-> block_id, ok |-> FALSE]
    /\ UNCHANGED <<writer_vars, history_vars>>

\* HnfWriter::write_block
write_block(block_id, data) ==
    /\ ~finalized
    /\ UNCHANGED <<htf_vars, hqs_vars, pack_vars, rest_vars>>
    /\ calls' = calls + 1
    /\ UNCHANGED finalized
    /\ IF block_id >= 16
       THEN bail("write_block", block_id)
       ELSE LET a == align_32([file |-> file, current_offset |-> current_offset])
                block_offset == a.current_offset
                checksum == xxh3_64(data)
            IN /\ file' = a.file \o data
               /\ block_table' = [block_table EXCEPT
                                    ![block_id].offset = block_offset,
                                    ![block_id].size = Len(data),
                                    ![block_id].checksum = checksum]
               /\ current_offset' = a.current_offset + Len(data)
               /\ last' = [op |-> "write_block", block_id |-> block_id, ok |-> TRUE]
               /\ Ordered(block_id)
               /\ UNCHANGED <<header, tensor_manifests, block_hashers>>

\* Variant of TensorBlockSize that forgets to subtract the block's offset.
TensorBlockSize_cursor(cursor, block_offset) == cursor

\* write_tensor, lines 143-145: the size of the block after a tensor write.
TensorBlockSize(cursor, block_offset) == cursor - block_offset

\* HnfWriter::write_tensor
write_tensor(block_id, data) ==
    /\ ~finalized
    /\ UNCHANGED <<htf_vars, hqs_vars, pack_vars, rest_vars>>
    /\ calls' = calls + 1
    /\ UNCHANGED finalized
    /\ IF block_id >= 16
       THEN bail("write_tensor", block_id)
       ELSE LET first == block_table[block_id].size = 0
                w == [file |-> file, current_offset |-> current_offset]
                \* first tensor of the block: align, mark the offset, new hasher
                a == IF first THEN align_32(w) ELSE w
                start == IF first THEN a.current_offset
                                  ELSE block_table[block_id].offset
                hasher == IF first THEN Xxh3_new ELSE block_hashers[block_id]
                tensor_offset == a.current_offset
                offset1 == a.current_offset + Len(data)
            IN /\ file' = a.file \o data
               /\ current_offset' = offset1
               /\ block_hashers' = [block_hashers EXCEPT ![block_id] =
                                      IF hasher.some
                                      THEN Xxh3_update(hasher, data) ELSE None]
               /\ block_table' = [block_table EXCEPT
                                    ![block_id].offset = start,
                                    ![block_id].size = TensorBlockSize(offset1, start)]
               /\ tensor_manifests' = [tensor_manifests EXCEPT ![block_id] =
                                         Append(@, [offset |-> tensor_offset,
                                                    size |-> Len(data)])]
               /\ last' = [op |-> "write_tensor", block_id |-> block_id, ok |-> TRUE]
               /\ Ordered(block_id)
               /\ UNCHANGED header

\* HnfWriter::finalize_block
finalize_block(block_id) ==
    /\ ~finalized
    /\ UNCHANGED <<htf_vars, hqs_vars, pack_vars, rest_vars>>
    /\ calls' = calls + 1
    /\ last' = [op |-> "finalize_block", block_id |-> block_id, ok |-> TRUE]
    /\ UNCHANGED <<file, header, current_offset, tensor_manifests, finalized,
                   last_slot, in_order>>
    /\ IF block_id >= 16
       THEN UNCHANGED <<block_table, block_hashers, committed>>
       ELSE IF block_table[block_id].size = 0
       THEN UNCHANGED <<block_table, block_hashers, committed>>
       ELSE IF block_hashers[block_id].some
       THEN /\ block_table' = [block_table EXCEPT ![block_id].checksum =
                                 Xxh3_digest(block_hashers[block_id])]
            /\ block_hashers' = [block_hashers EXCEPT ![block_id] = None]
            /\ committed' = committed \cup {block_id}
       ELSE UNCHANGED <<block_table, block_hashers, committed>>

\* finalize, lines 243-277: one `if entries[block].size > 0 { flags.set(flag) }`.
SetIfNonEmpty(flags, bt, block, flag) ==
    IF bt[block].size > 0 THEN FlagsSet(flags, flag) ELSE flags

\* The same with the second flags.set(IS_MULTIMODAL) of the first four blocks.
SetMultimodal(flags, bt, block, flag) ==
    SetIfNonEmpty(SetIfNonEmpty(flags, bt, block, flag), bt, block, IS_MULTIMODAL)

\* Variant of FinalFlags whose audio branch does not set IS_MULTIMODAL.
FinalFlags_audio_only(flags, bt) ==
    LET f1 == SetMultimodal(flags, bt, BLOCK_VISION, HAS_VISION)
        f2 == SetIfNonEmpty(f1, bt, BLOCK_AUDIO, HAS_AUDIO)
        f3 == SetMultimodal(f2, bt, BLOCK_VIDEO, HAS_VIDEO)
        f4 == SetMultimodal(f3, bt, BLOCK_SPATIAL_3D, HAS_SPATIAL)
        f5 == SetIfNonEmpty(f4, bt, BLOCK_PERSONALITY, HAS_PERSONALITY)
        f6 == SetIfNonEmpty(f5, bt, BLOCK_MEMORY, HAS_MEMORY)
        f7 == SetIfNonEmpty(f6, bt, BLOCK_CORTEX, HAS_CORTEX)
        f8 == SetIfNonEmpty(f7, bt, BLOCK_CODE_EXEC, HAS_CODE_EXEC)
        f9 == SetIfNonEmpty(f8, bt, BLOCK_TOOLS, HAS_TOOLS)
    IN SetIfNonEmpty(f9, bt, BLOCK_EXPERT_ROUTER, HAS_EXPERT_ROUTER)

\* finalize, lines 243-277: the feature flags derived from the non-empty blocks.
FinalFlags(flags, bt) ==
    LET f1 == SetMultimodal(flags, bt, BLOCK_VISION, HAS_VISION)
        f2 == SetMultimodal(f1, bt, BLOCK_AUDIO, HAS_AUDIO)
        f3 == SetMultimodal(f2, bt, BLOCK_VIDEO, HAS_VIDEO)
        f4 == SetMultimodal(f3, bt, BLOCK_SPATIAL_3D, HAS_SPATIAL)
        f5 == SetIfNonEmpty(f4, bt, BLOCK_PERSONALITY, HAS_PERSONALITY)
        f6 == SetIfNonEmpty(f5, bt, BLOCK_MEMORY, HAS_MEMORY)
        f7 == SetIfNonEmpty(f6, bt, BLOCK_CORTEX, HAS_CORTEX)
        f8 == SetIfNonEmpty(f7, bt, BLOCK_CODE_EXEC, HAS_CODE_EXEC)
        f9 == SetIfNonEmpty(f8, bt, BLOCK_TOOLS, HAS_TOOLS)
    IN SetIfNonEmpty(f9, bt, BLOCK_EXPERT_ROUTER, HAS_EXPERT_ROUTER)

\* file.seek(SeekFrom::Start(pos)) followed by file.write_all(bytes), for a
\* position inside the file: the bytes replace those at pos.. and extend the
\* file when they reach beyond its end.
WriteAt(f, pos, bytes) ==
    SubSeq(f, 1, pos) \o bytes \o SubSeq(f, pos + Len(bytes) + 1, Len(f))

\* HnfWriter::finalize; manifest_bytes is the serialised manifest.
finalize(manifest_bytes) ==
    /\ ~finalized
    /\ UNCHANGED <<htf_vars, hqs_vars, pack_vars, rest_vars>>
    /\ LET a == align_32([file |-> file, current_offset |-> current_offset])
           manifest_offset == a.current_offset
           manifest_size == Len(manifest_bytes)
           file_size == a.current_offset + manifest_size
           checksum == crc32fast_hash(HnfHeader_to_bytes(header)
                                        \o BlockTable_to_bytes(block_table))
           header1 == [header EXCEPT !.manifest_offset = manifest_offset,
                                     !.manifest_size = manifest_size,
                                     !.file_size = file_size,
                                     !.checksum = checksum]
           header2 == [header1 EXCEPT !.flags = FinalFlags(@, block_table)]
       IN /\ file' = WriteAt(WriteAt(a.file \o manifest_bytes, 0,
                                     HnfHeader_to_bytes(header2)),
                             HEADER_SIZE, BlockTable_to_bytes(block_table))
          /\ header' = header2
          /\ current_offset' = a.current_offset
    /\ finalized' = TRUE
    /\ last' = [op |-> "finalize", block_id |-> 0, ok |-> TRUE]
    /\ UNCHANGED <<block_table, tensor_manifests, block_hashers, calls,
                   history_vars>>

(***************************************************************************)
(* Spec: at most MaxCalls calls with block ids from BlockIds, then         *)
(* finalize.  SpecAll: at most MaxCallsAll calls with any block id.        *)
(***************************************************************************)
WriteBlock == calls < MaxCalls /\ \E b \in BlockIds, d \in Payloads : write_block(b, d)
WriteTensor == calls < MaxCalls /\ \E b \in BlockIds, d \in Payloads : write_tensor(b, d)
FinalizeBlock == calls < MaxCalls /\ \E b \in BlockIds : finalize_block(b)
Finalize == \E m \in ManifestBytes : finalize(m)

Next == WriteBlock \/ WriteTensor \/ FinalizeBlock \/ Finalize

Spec == Init /\ [][Next]_vars

WriteBlockAll ==
    calls < MaxCallsAll /\ \E b \in AllBlockIds, d \in PayloadsAll : write_block(b, d)
WriteTensorAll ==
    calls < MaxCallsAll /\ \E b \in AllBlockIds, d \in PayloadsAll : write_tensor(b, d)
FinalizeBlockAll == calls < MaxCallsAll /\ \E b \in AllBlockIds : finalize_block(b)

NextAll == WriteBlockAll \/ WriteTensorAll \/ FinalizeBlockAll \/ Finalize

SpecAll == Init /\ [][NextAll]_vars

(***************************************************************************)
(* What a reader of the output file sees.                                  *)
(***************************************************************************)
StoredHeader == HnfHeader_from_bytes(file)
StoredTable == BlockTable_from_bytes(file, HEADER_SIZE)
\* file[offset .. offset + size) in the 0-based offsets of the format
FileBytes(offset, size) == SubSeq(file, offset + 1, offset + size)
WriteOps == {"write_tensor", "write_block"}
\* The step is a call of write_tensor or write_block on block id b.
IsWriteTo(b) == calls' = calls + 1 /\ last'.op \in WriteOps /\ last'.block_id = b

(***************************************************************************)
(* C1.  After finalize, the checksum stored for every slot of size > 0 is  *)
(* the XXH3-64 of the file bytes [offset, offset + size), whatever calls   *)
(* of write_tensor, write_block and finalize_block came before.            *)
(***************************************************************************)
C1_StoredHashCoversPayload ==
    finalized =>
        \A s \in 0..15 :
            StoredTable[s].size > 0 =>
                StoredTable[s].checksum =
                    xxh3_64(FileBytes(StoredTable[s].offset, StoredTable[s].size))

(***************************************************************************)
(* C2.  After finalize, for each pair (slot, bit) of the normative table   *)
(* the header flag bit is set iff the slot's size is > 0.                  *)
(***************************************************************************)
FlagOfSlot ==
    {<<1, HAS_VISION>>, <<2, HAS_AUDIO>>, <<3, HAS_VIDEO>>, <<4, HAS_SPATIAL>>,
     <<5, HAS_PERSONALITY>>, <<6, HAS_MEMORY>>, <<7, HAS_CORTEX>>,
     <<8, HAS_CODE_EXEC>>, <<9, HAS_TOKENIZER>>, <<11, HAS_EXEC_HINTS_BIN>>,
     <<12, HAS_TOOLS>>, <<13, HAS_EXPERT_ROUTER>>}

C2_FlagIffSlotNonEmpty ==
    finalized =>
        \A p \in FlagOfSlot :
            FlagsHas(StoredHeader.flags, p[2]) <=> StoredTable[p[1]].size > 0

(***************************************************************************)
(* C3.  After finalize, every non-empty slot starts at or after the end of *)
(* the previous non-empty slot (in slot order).  Original: for every       *)
(* sequence of writes the writer accepts.  Amended: for every sequence of  *)
(* accepted writes whose block ids never decrease.                         *)
(***************************************************************************)
\* s is the non-empty slot that precedes t in the table bt
PreviousNonEmpty(bt, s, t) ==
    /\ s < t
    /\ bt[s].size > 0
    /\ \A u \in (s + 1)..(t - 1) : bt[u].size = 0

AscendingPayloads(bt) ==
    \A t \in 0..15 :
        bt[t].size > 0 =>
            \A s \in 0..15 :
                PreviousNonEmpty(bt, s, t) => bt[t].offset >= bt[s].offset + bt[s].size

C3_AscendingForAnyOrder == finalized => AscendingPayloads(StoredTable)

C3_AscendingWhenWrittenInOrder ==
    (finalized /\ in_order) => AscendingPayloads(StoredTable)

C3_Witness ==
    /\ finalized
    /\ in_order
    /\ StoredTable[1].size > 0
    /\ StoredTable[9].size > 0
    /\ StoredTable[9].offset > StoredTable[1].offset + StoredTable[1].size

(***************************************************************************)
(* C4.  After finalize, manifest_offset is a multiple of 32,               *)
(* manifest_offset + manifest_size = file_size, and file_size is the       *)
(* length of the file; before finalize the cursor equals the number of     *)
(* bytes emitted so far.                                                   *)
(***************************************************************************)
C4_ManifestClosesFile ==
    /\ ~finalized => current_offset = Len(file)
    /\ finalized =>
         /\ StoredHeader.manifest_offset % 32 = 0
         /\ StoredHeader.manifest_offset + StoredHeader.manifest_size
              = StoredHeader.file_size
         /\ StoredHeader.file_size = Len(file)

\* a finalized file whose manifest follows padding after a 2-byte payload
C4_Witness ==
    /\ finalized
    /\ \E s \in 0..15 : StoredTable[s].size > 0
    /\ StoredHeader.manifest_offset = 608
    /\ Len(file) = 612

(***************************************************************************)
(* C5.  After any sequence of write_tensor and write_block calls, every    *)
(* slot of size > 0 has an offset divisible by 32.                         *)
(***************************************************************************)
C5_BlockOffsetsAligned ==
    \A s \in 0..15 : block_table[s].size > 0 => block_table[s].offset % 32 = 0

\* a block that starts after alignment padding
C5_Witness ==
    /\ ~finalized
    /\ \E s \in 0..15 : block_table[s].size > 0 /\ block_table[s].offset > 576

(***************************************************************************)
(* C6.  The CRC-32 of the stored 64-byte header, with its checksum field   *)
(* zeroed, followed by the stored 512-byte block table equals the checksum *)
(* stored in the header.                                                   *)
(***************************************************************************)
C6_HeaderChecksumVerifies ==
    finalized =>
        StoredHeader.checksum =
            crc32fast_hash(SubSeq(file, 1, 56) \o Zeros(4) \o SubSeq(file, 61, 576))

(***************************************************************************)
(* C7.  Once finalize_block(s) has committed the hash of slot s, a later   *)
(* write_tensor or write_block on s returns an error and changes neither   *)
(* the file nor the entry of s.                                            *)
(***************************************************************************)
C7_CommittedSlotRejectsWrites ==
    [][\A s \in committed :
          IsWriteTo(s) =>
              /\ ~last'.ok
              /\ file' = file
              /\ block_table'[s] = block_table[s]]_vars

(***************************************************************************)
(* C8.  write_tensor and write_block with block_id >= 16 return an error   *)
(* and leave the file, the cursor, the block table, the hashers and the    *)
(* tensor manifests unchanged.                                             *)
(***************************************************************************)
C8_OutOfRangeRejected ==
    [][\A b \in AllBlockIds :
          (b >= 16 /\ IsWriteTo(b)) =>
              /\ ~last'.ok
              /\ UNCHANGED <<file, current_offset, block_table, block_hashers,
                             tensor_manifests>>]_vars

\* an out-of-range write was refused while the cursor was not aligned
C8_Witness ==
    /\ last.op \in WriteOps
    /\ last.block_id >= 16
    /\ ~last.ok
    /\ current_offset % 32 # 0

(***************************************************************************)
(* C9.  After finalize, every entry has block_id = block_type = its index, *)
(* and every slot of size 0 has offset 0 and checksum 0.                   *)
(***************************************************************************)
C9_EmptySlotsAreZero ==
    finalized =>
        \A i \in 0..15 :
            /\ StoredTable[i].block_id = i
            /\ StoredTable[i].block_type = i
            /\ StoredTable[i].size = 0 =>
                 (StoredTable[i].offset = 0 /\ StoredTable[i].checksum = 0)

(***************************************************************************)
(* C10.  After finalize, bit 13 (IS_MULTIMODAL) is set iff one of the bits *)
(* 0..3 is set, and iff one of the slots 0x1..0x4 is non-empty.            *)
(***************************************************************************)
C10_MultimodalIffModality ==
    finalized =>
        /\ FlagsHas(StoredHeader.flags, IS_MULTIMODAL)
             <=> \E f \in {HAS_VISION, HAS_AUDIO, HAS_VIDEO, HAS_SPATIAL} :
                    FlagsHas(StoredHeader.flags, f)
        /\ FlagsHas(StoredHeader.flags, IS_MULTIMODAL)
             <=> \E s \in 1..4 : StoredTable[s].size > 0

\* a finalized file with an audio block and bit 13 set
C10_Witness ==
    /\ finalized
    /\ StoredTable[BLOCK_AUDIO].size > 0
    /\ FlagsHas(StoredHeader.flags, HAS_AUDIO)
    /\ FlagsHas(StoredHeader.flags, IS_MULTIMODAL)

(***************************************************************************)
(* SpecTensors: at most MaxCalls calls of write_tensor and nothing else.   *)
(***************************************************************************)
SpecTensors == Init /\ [][WriteTensor]_vars

RECURSIVE SumOfSizes(_)
\* Sum of the byte lengths recorded in a list of tensor manifest entries.
SumOfSizes(entries) ==
    IF entries = <<>> THEN 0 ELSE Head(entries).size + SumOfSizes(Tail(entries))

(***************************************************************************)
(* C11.  After any sequence of write_tensor calls, block_table[s].size is  *)
(* the sum of the byte lengths of the payloads written to slot s, also     *)
(* when writes to other slots happen between two writes to s.              *)
(***************************************************************************)
C11_SizeIsSumOfPayloads ==
    \A s \in 0..15 : block_table[s].size = SumOfSizes(tensor_manifests[s])

(***************************************************************************)
(* HTF, the tokenizer bundle (converter/src/htf).                          *)
(*                                                                         *)
(* Strings are sequences of bytes.  A vocabulary (HashMap<String, u32>) is *)
(* a set of records [token, id] with distinct tokens; merges is a sequence *)
(* of strings.  The `config` argument of the add_*_domain calls is the     *)
(* empty JSON object throughout, so every identifier read from it has its  *)
(* default and the sets of special, control and added token ids are empty. *)
(***************************************************************************)
\* Domains added before build, in the specification with varied domains.
MaxDomains == 2
\* Domains added before build, in the specification with many equal domains.
MaxDomainsMany == 9

\* Vocabularies handed to add_*_domain: none, and {"a": 0, "bc": 1}.
Vocabs == {{}, {[token |-> <<97>>, id |-> 0], [token |-> <<98, 99>>, id |-> 1]}}
\* Merge lists handed to add_*_domain: none, and ["a bc"].
MergeLists == {<<>>, << <<97, 32, 98, 99>> >>}
\* serde_json::to_string(config) for the empty object: "{}".
ConfigJson == <<123, 125>>

HTF_MAGIC == <<72, 84, 70, 50>>
HTF_VERSION == 259
HTF3_MAGIC == <<72, 84, 70, 51>>
HTF3_VERSION == 304
HTF_HEADER_SIZE == 32
HTF_DOMAIN_ENTRY_SIZE == 32

HTF_DOMAIN_TEXT == 0
HTF_DOMAIN_VISION == 1
HTF_DOMAIN_AUDIO == 2
HTF_DOMAIN_CODE == 3

HTF_HEADER_HAS_CODEBOOK == 1
HTF_HEADER_HAS_MERGES == 2

HTF_FLAG_HAS_VOCAB == 1
HTF_FLAG_HAS_CODEBOOK == 2
HTF_FLAG_HAS_MERGES == 4
HTF_FLAG_IS_PRIMARY == 8

TOKEN_FLAG_BYTE == 8

\* to_le_bytes of a signed integer of n bytes (two's complement).
LESigned(v, n) ==
    IF v >= 0 THEN LEBytes(v, n)
    ELSE LET m == LEBytes((-v) - 1, n) IN [i \in 1..n |-> 255 - m[i]]

\* pad_to(&mut buf, alignment)
pad_to(buf, alignment) ==
    buf \o Zeros((alignment - (Len(buf) % alignment)) % alignment)

\* is_byte_token: the token spells <0xNN> with two hexadecimal digits.
IsHexDigit(c) == c \in (48..57) \cup (65..70) \cup (97..102)
is_byte_token(token) ==
    /\ Len(token) = 6
    /\ SubSeq(token, 1, 3) = <<60, 48, 120>>
    /\ token[6] = 62
    /\ IsHexDigit(token[4]) /\ IsHexDigit(token[5])

RECURSIVE SortedById(_)
\* vocab.iter().collect() followed by sort_by_key(|(_, &id)| id).
SortedById(vocab) ==
    IF vocab = {} THEN <<>>
    ELSE LET first == CHOOSE e \in vocab : \A o \in vocab : e.id <= o.id
         IN <<first>> \o SortedById(vocab \ {first})

RECURSIVE AppendTokens(_, _)
\* The loop over the sorted vocabulary: one TokenEntry each, padded to 4.
AppendTokens(buf, sorted) ==
    IF sorted = <<>> THEN buf
    ELSE LET e == Head(sorted)
             token_flags == IF is_byte_token(e.token) THEN TOKEN_FLAG_BYTE ELSE 0
             entry == LEBytes(e.id, 4) \o LEBytes(Len(e.token), 2)
                        \o <<token_flags, 0>> \o e.token
         IN AppendTokens(pad_to(buf \o entry, 4), Tail(sorted))

\* The vocab section of a domain payload.
AppendVocab(buf, vocab) ==
    IF vocab = {} THEN buf
    ELSE AppendTokens(buf \o LEBytes(Cardinality(vocab), 4), SortedById(vocab))

RECURSIVE Split(_, _)
\* m.split(sep).collect(): the pieces of m between the separator bytes.
Split(m, sep) ==
    IF \E i \in 1..Len(m) : m[i] = sep
    THEN LET i == CHOOSE k \in 1..Len(m) :
                     m[k] = sep /\ \A j \in 1..(k - 1) : m[j] # sep
         IN <<SubSeq(m, 1, i - 1)>> \o Split(SubSeq(m, i + 1, Len(m)), sep)
    ELSE <<m>>

\* vocab.get(token): the set holding the id of the token, empty if absent.
VocabGet(vocab, token) == {e.id : e \in {x \in vocab : x.token = token}}

RECURSIVE MergePairs(_, _)
\* The pairs of ids of the merges whose two parts are both in the vocabulary.
MergePairs(merges, vocab) ==
    IF merges = <<>> THEN <<>>
    ELSE LET parts == Split(Head(merges), 32)
             rest == MergePairs(Tail(merges), vocab)
         IN IF Len(parts) = 2 /\ VocabGet(vocab, parts[1]) # {}
                              /\ VocabGet(vocab, parts[2]) # {}
            THEN << <<CHOOSE a \in VocabGet(vocab, parts[1]) : TRUE,
                      CHOOSE b \in VocabGet(vocab, parts[2]) : TRUE>> >> \o rest
            ELSE rest

RECURSIVE PairBytes(_)
PairBytes(pairs) ==
    IF pairs = <<>> THEN <<>>
    ELSE LEBytes(Head(pairs)[1], 4) \o LEBytes(Head(pairs)[2], 4)
           \o PairBytes(Tail(pairs))

\* The merges section of a domain payload.
AppendMerges(buf, merges, vocab) ==
    IF merges # <<>> /\ vocab # {}
    THEN LET merge_pairs == MergePairs(merges, vocab)
         IN buf \o LEBytes(Len(merge_pairs), 4) \o PairBytes(merge_pairs)
    ELSE buf

(***************************************************************************)
(* htf/binary.rs: the binary domain configs of HTF v1.3, built from the    *)
(* empty config (every token id -1, BPE, no flags, no added tokens).       *)
(***************************************************************************)
\* TextDomainConfigBin::from_config(config, vocab_size, num_added).to_bytes()
TextDomainConfigBin_to_bytes(vocab_size, num_added_tokens) ==
    LESigned(-1, 4) \o LESigned(-1, 4) \o LESigned(-1, 4) \o LESigned(-1, 4)
      \o LEBytes(vocab_size, 4) \o LEBytes(num_added_tokens, 2)
      \o <<0, 0>> \o Zeros(8)

\* CodeDomainConfigBin::from_config(config).to_bytes()
CodeDomainConfigBin_to_bytes ==
    LEBytes(0, 4) \o LESigned(-1, 4) \o LESigned(-1, 4) \o LESigned(-1, 4)
      \o LESigned(-1, 4) \o LESigned(-1, 2) \o LESigned(-1, 2)
      \o LESigned(-1, 2) \o LEBytes(0, 2) \o Zeros(4)

\* AudioDomainConfigBin::from_config(config).to_bytes()
AudioDomainConfigBin_to_bytes ==
    LEBytes(0, 4) \o LEBytes(16000, 4) \o LEBytes(128, 4) \o LEBytes(400, 4)
      \o LEBytes(160, 4) \o LEBytes(1280, 4) \o LEBytes(32, 4)
      \o LEBytes(20, 4) \o LEBytes(30, 4) \o LEBytes(0, 4) \o LEBytes(0, 4)
      \o LEBytes(0, 2) \o LEBytes(0, 2) \o LESigned(-1, 4) \o LESigned(-1, 4)
      \o LESigned(-1, 4) \o LEBytes(0, 2) \o Zeros(2)

\* HTFWriter::build_domain_data_v12
build_domain_data_v12(vocab, merges) ==
    LET buf == pad_to(LEBytes(Len(ConfigJson), 4) \o ConfigJson, 4)
    IN AppendMerges(AppendVocab(buf, vocab), merges, vocab)

\* HTFWriter::build_domain_data_v13, for the domain types that the public
\* add_*_domain methods pass (text, code, audio).
build_domain_data_v13(domain_type, vocab, merges) ==
    IF domain_type = HTF_DOMAIN_AUDIO THEN AudioDomainConfigBin_to_bytes
    ELSE LET text_config == TextDomainConfigBin_to_bytes(Cardinality(vocab), 0)
             configs == IF domain_type = HTF_DOMAIN_CODE
                        THEN text_config \o CodeDomainConfigBin_to_bytes
                        ELSE text_config
             buf == pad_to(configs \o LEBytes(0, 4), 8)
         IN AppendMerges(AppendVocab(buf, vocab), merges, vocab)

\* HTFWriter::add_domain_internal: the DomainEntry it pushes.
DomainEntry(v13, domain_type, vocab, merges, is_primary) ==
    LET f1 == IF vocab # {} THEN HTF_FLAG_HAS_VOCAB ELSE 0
        f2 == IF merges # <<>> THEN FlagsSet(f1, HTF_FLAG_HAS_MERGES) ELSE f1
        f3 == IF is_primary THEN FlagsSet(f2, HTF_FLAG_IS_PRIMARY) ELSE f2
    IN [domain_type |-> domain_type,
        domain_flags |-> f3,
        vocab_size |-> Cardinality(vocab),
        data |-> IF v13 THEN build_domain_data_v13(domain_type, vocab, merges)
                        ELSE build_domain_data_v12(vocab, merges)]

\* Variant of compute_htf_checksum that hashes the domain table and the data
\* but not the header.
compute_htf_checksum_no_header(b) ==
    IF Len(b) < HTF_HEADER_SIZE THEN 0
    ELSE Xxh3_digest(Xxh3_update(Xxh3_new, SubSeq(b, HTF_HEADER_SIZE + 1, Len(b))))

\* compute_htf_checksum
compute_htf_checksum(b) ==
    IF Len(b) < HTF_HEADER_SIZE THEN 0
    ELSE LET h1 == Xxh3_update(Xxh3_new, SubSeq(b, 1, 24))
             h2 == Xxh3_update(h1, Zeros(8))
             h3 == Xxh3_update(h2, SubSeq(b, HTF_HEADER_SIZE + 1, Len(b)))
         IN Xxh3_digest(h3)

\* The canonical name of a domain type (build, lines 571-577).
DomainName(domain_type) ==
    IF domain_type = HTF_DOMAIN_TEXT THEN <<116, 101, 120, 116>>
    ELSE IF domain_type = HTF_DOMAIN_VISION THEN <<118, 105, 115, 105, 111, 110>>
    ELSE IF domain_type = HTF_DOMAIN_AUDIO THEN <<97, 117, 100, 105, 111>>
    ELSE IF domain_type = HTF_DOMAIN_CODE THEN <<99, 111, 100, 101>>
    ELSE <<117, 110, 107, 110, 111, 119, 110>>

\* build, lines 594-604: magic, version, flags, num_domains and total_size
\* written over the header placeholder; bytes 9..16 and 24..32 stay zero.
WriteHtfHeader(result, v13, htf_flags, num_domains, total_size) ==
    LET r1 == WriteAt(result, 0, IF v13 THEN HTF3_MAGIC ELSE HTF_MAGIC)
        r2 == WriteAt(r1, 4, LEBytes(IF v13 THEN HTF3_VERSION ELSE HTF_VERSION, 2))
        r3 == WriteAt(r2, 6, LEBytes(htf_flags, 2))
        r4 == WriteAt(r3, 8, <<num_domains>>)
    IN WriteAt(r4, 16, LEBytes(total_size, 8))

\* HTFWriter::build_empty
build_empty(v13) ==
    LET result == Zeros(HTF_HEADER_SIZE + HTF_DOMAIN_ENTRY_SIZE)
        r1 == WriteHtfHeader(result, v13, 0, 1, Len(result))
        start == HTF_HEADER_SIZE
        r2 == WriteAt(r1, start, <<HTF_DOMAIN_TEXT, HTF_FLAG_IS_PRIMARY>>)
        r3 == WriteAt(r2, start + 24, LEBytes(xxh3_64(DomainName(HTF_DOMAIN_TEXT)), 8))
    IN WriteAt(r3, 24, LEBytes(compute_htf_checksum(r3), 8))

RECURSIVE AppendDomainData(_, _)
\* build, lines 552-561: each domain's data appended at the next multiple of
\* 16; the result carries the buffer and the offsets and sizes recorded.
AppendDomainData(acc, ds) ==
    IF ds = <<>> THEN acc
    ELSE LET padded == pad_to(acc.result, 16)
         IN AppendDomainData(
                [result |-> padded \o Head(ds).data,
                 domain_offsets |-> Append(acc.domain_offsets, Len(padded)),
                 domain_sizes |-> Append(acc.domain_sizes, Len(Head(ds).data))],
                Tail(ds))

\* Variant of PadBlob that pads the blob to a multiple of 16.
PadBlob_16(result) == pad_to(result, 16)

\* build, lines 563-565: the final padding of the blob.
PadBlob(result) == pad_to(result, 32)

\* build, lines 582-589: one domain-table entry.
DomainEntry_to_bytes(d, data_offset, data_size) ==
    <<d.domain_type, d.domain_flags>> \o LEBytes(0, 2) \o LEBytes(d.vocab_size, 4)
      \o LEBytes(data_offset, 8) \o LEBytes(data_size, 8)
      \o LEBytes(xxh3_64(DomainName(d.domain_type)), 8)

RECURSIVE WriteDomainTable(_, _, _, _, _)
\* build, lines 569-590: the entries written over the table placeholder.
WriteDomainTable(result, ds, offsets, sizes, idx) ==
    IF idx > Len(ds) THEN result
    ELSE WriteDomainTable(
             WriteAt(result, HTF_HEADER_SIZE + (idx - 1) * HTF_DOMAIN_ENTRY_SIZE,
                     DomainEntry_to_bytes(ds[idx], offsets[idx], sizes[idx])),
             ds, offsets, sizes, idx + 1)

\* build, lines 531-538: the header flags.
HtfFlags(ds) ==
    LET f1 == IF \E i \in 1..Len(ds) : FlagsHas(ds[i].domain_flags, HTF_FLAG_HAS_MERGES)
              THEN HTF_HEADER_HAS_MERGES ELSE 0
    IN IF \E i \in 1..Len(ds) : FlagsHas(ds[i].domain_flags, HTF_FLAG_HAS_CODEBOOK)
       THEN FlagsSet(f1, HTF_HEADER_HAS_CODEBOOK) ELSE f1

\* HTFWriter::build
build(ds, v13) ==
    IF ds = <<>> THEN build_empty(v13)
    ELSE LET num_domains == Len(ds) % 256
             placeholders == pad_to(Zeros(HTF_HEADER_SIZE)
                                      \o Zeros(num_domains * HTF_DOMAIN_ENTRY_SIZE), 16)
             laid == AppendDomainData([result |-> placeholders,
                                       domain_offsets |-> <<>>,
                                       domain_sizes |-> <<>>], ds)
             padded == PadBlob(laid.result)
             total_size == Len(padded)
             r1 == WriteDomainTable(padded, ds, laid.domain_offsets,
                                    laid.domain_sizes, 1)
             r2 == WriteHtfHeader(r1, v13, HtfFlags(ds), num_domains, total_size)
         IN WriteAt(r2, 24, LEBytes(compute_htf_checksum(r2), 8))

(***************************************************************************)
(* Actions of the HTFWriter.  A call of add_*_domain returns nothing, so   *)
(* blob is empty after it; build returns the blob and leaves the writer    *)
(* as it is.                                                               *)
(***************************************************************************)
add_domain_internal(domain_type, vocab, merges, is_primary) ==
    /\ domains' = Append(domains,
                         DomainEntry(use_v13, domain_type, vocab, merges, is_primary))
    /\ blob' = <<>>
    /\ UNCHANGED <<use_v13, hnf_vars, hqs_vars, pack_vars, rest_vars>>

add_text_domain(vocab, merges, is_primary) ==
    add_domain_internal(HTF_DOMAIN_TEXT, vocab, merges, is_primary)

add_code_domain(vocab, merges, is_primary) ==
    add_domain_internal(HTF_DOMAIN_CODE, vocab, merges, is_primary)

add_audio_domain(vocab, merges, is_primary) ==
    add_domain_internal(HTF_DOMAIN_AUDIO, vocab, merges, is_primary)

Build ==
    /\ blob = <<>>
    /\ blob' = build(domains, use_v13)
    /\ UNCHANGED <<domains, use_v13, hnf_vars, hqs_vars, pack_vars, rest_vars>>

\* HTFWriter::new or HTFWriter::new_v13, beside a created HnfWriter.
InitHtf ==
    /\ HnfWriter_create
    /\ domains = <<>>
    /\ use_v13 \in BOOLEAN
    /\ blob = <<>>
    /\ HqsIdle
    /\ PackIdle
    /\ RestIdle

(***************************************************************************)
(* SpecHtf: at most MaxDomains domains of any kind, then build.            *)
(* SpecHtfMany: at most MaxDomainsMany text domains without vocabulary.    *)
(***************************************************************************)
AddTextDomain ==
    /\ Len(domains) < MaxDomains
    /\ \E v \in Vocabs, m \in MergeLists, p \in BOOLEAN : add_text_domain(v, m, p)
AddCodeDomain ==
    /\ Len(domains) < MaxDomains
    /\ \E v \in Vocabs, m \in MergeLists, p \in BOOLEAN : add_code_domain(v, m, p)
AddAudioDomain ==
    /\ Len(domains) < MaxDomains
    /\ \E v \in Vocabs, m \in MergeLists, p \in BOOLEAN : add_audio_domain(v, m, p)

NextHtf == AddTextDomain \/ AddCodeDomain \/ AddAudioDomain \/ Build

SpecHtf == InitHtf /\ [][NextHtf]_vars

AddTextDomainMany ==
    /\ Len(domains) < MaxDomainsMany
    /\ \E p \in BOOLEAN : add_text_domain({}, <<>>, p)

NextHtfMany == AddTextDomainMany \/ Build

SpecHtfMany == InitHtf /\ [][NextHtfMany]_vars

(***************************************************************************)
(* What a reader of the blob sees (validate_htf, lines 96-166).            *)
(***************************************************************************)
BlobNumDomains == blob[9]
BlobTotalSize == LEValue(blob, 16, 8)
BlobChecksum == LEValue(blob, 24, 8)
\* The i-th entry of the domain table, i counted from 0.
BlobDomain(i) ==
    LET start == HTF_HEADER_SIZE + i * HTF_DOMAIN_ENTRY_SIZE
    IN [domain_type |-> blob[start + 1],
        domain_flags |-> blob[start + 2],
        vocab_size |-> LEValue(blob, start + 4, 4),
        data_offset |-> LEValue(blob, start + 8, 8),
        data_size |-> LEValue(blob, start + 16, 8)]
Built == blob # <<>>

\* The entries of the domain table that carry IS_PRIMARY.
PrimaryEntries ==
    {i \in 0..(BlobNumDomains - 1) :
        FlagsHas(BlobDomain(i).domain_flags, HTF_FLAG_IS_PRIMARY)}

(***************************************************************************)
(* C12.  Every blob returned by build has exactly one domain-table entry   *)
(* with the IS_PRIMARY flag, and a blob with a single domain has domain    *)
(* type text, whatever add_*_domain calls (with whatever is_primary        *)
(* arguments) came before.                                                 *)
(***************************************************************************)
C12_ExactlyOnePrimary ==
    Built => /\ Cardinality(PrimaryEntries) = 1
             /\ BlobNumDomains = 1 => BlobDomain(0).domain_type = HTF_DOMAIN_TEXT

\* n rounded up to the next multiple of 16.
RoundUp16(n) == ((n + 15) \div 16) * 16

(***************************************************************************)
(* C13.  In every blob returned by build the first domain's data_offset is *)
(* 32 + 32 * N rounded up to 16, and each later data_offset is the         *)
(* previous data_offset + data_size rounded up to 16; this includes the    *)
(* minimal blob built when no domain was added.                            *)
(***************************************************************************)
C13_OffsetsContiguous ==
    Built =>
        /\ BlobDomain(0).data_offset =
               RoundUp16(HTF_HEADER_SIZE + HTF_DOMAIN_ENTRY_SIZE * BlobNumDomains)
        /\ \A i \in 1..(BlobNumDomains - 1) :
               BlobDomain(i).data_offset =
                   RoundUp16(BlobDomain(i - 1).data_offset + BlobDomain(i - 1).data_size)

(***************************************************************************)
(* C14.  The length of every blob returned by build is a multiple of 32    *)
(* and equals the total_size stored at header bytes 16..24, and every      *)
(* domain's data_offset + data_size is at most total_size.                 *)
(***************************************************************************)
C14_TotalSizeIsLength ==
    Built =>
        /\ Len(blob) % 32 = 0
        /\ BlobTotalSize = Len(blob)
        /\ \A i \in 0..(BlobNumDomains - 1) :
               BlobDomain(i).data_offset + BlobDomain(i).data_size <= BlobTotalSize

\* A built blob of two domains whose last payload ends off a 32-byte boundary.
C14_Witness ==
    /\ Built
    /\ BlobNumDomains = 2
    /\ (BlobDomain(1).data_offset + BlobDomain(1).data_size) % 32 # 0
    /\ BlobDomain(1).data_size > 0

\* Variant of compute_checksum_for_validation that hashes the bytes as they
\* are, the stored checksum included.
compute_checksum_for_validation_whole(data) ==
    IF Len(data) < HTF_HEADER_SIZE THEN 0
    ELSE xxh3_64(data)

\* validate.rs, compute_checksum_for_validation
compute_checksum_for_validation(data) ==
    IF Len(data) < HTF_HEADER_SIZE THEN 0
    ELSE xxh3_64(SubSeq(data, 1, 24) \o Zeros(8)
                   \o SubSeq(data, HTF_HEADER_SIZE + 1, Len(data)))

(***************************************************************************)
(* C15.  For every blob returned by build, the hash of bytes 0..24, then   *)
(* eight zero bytes, then bytes 32..end is the value stored little-endian  *)
(* at bytes 24..32: the hash was taken over the final header and table.    *)
(***************************************************************************)
C15_ChecksumReproducible ==
    Built => compute_checksum_for_validation(blob) = BlobChecksum

\* A built blob with two domains, a payload and header flags set.
C15_Witness ==
    /\ Built
    /\ BlobNumDomains = 2
    /\ BlobDomain(0).data_size > 0
    /\ LEValue(blob, 6, 2) # 0
    /\ BlobChecksum # 0

\* The number of entries build wrote into the domain table.
EntriesWritten == IF domains = <<>> THEN 1 ELSE Len(domains)

(***************************************************************************)
(* C16.  In every blob returned by build the num_domains byte is between   *)
(* 1 and 8 and equals the number of 32-byte entries of the domain table,   *)
(* whatever number of add_*_domain calls came before build.                *)
(***************************************************************************)
C16_NumDomainsInRange ==
    Built => BlobNumDomains \in 1..8 /\ BlobNumDomains = EntriesWritten

(***************************************************************************)
(* HQS, the block quantization codec (converter/src/hqs).                  *)
(*                                                                         *)
(* Numbers.  An f32 is an integer number of units; f32::INFINITY and NaN   *)
(* are the two values Inf and NaN above every finite value, and the        *)
(* arithmetic on finite values is exact.  A half::f16 is a bit pattern     *)
(* with a sign bit, HalfExpBits exponent bits and HalfMantBits mantissa    *)
(* bits, with subnormals, two infinities and NaNs laid out as in IEEE 754  *)
(* binary16 (which has 5 and 10 bits); its least subnormal is 4 units.     *)
(* EPS = 1e-7 lies between the first and the second subnormal of binary16  *)
(* (5.96e-8 and 1.19e-7) and nearer to the second: it is 7 units here.     *)
(***************************************************************************)
HalfExpBits == 2
HalfMantBits == 2

SUPER_BLOCK_SIZE == 256
GROUP_SIZE == 8
NUM_GROUPS == 32
EPS == 7
HQS_HEADER_SIZE == 128
HQ4K_PAYLOAD == 128
HQ4K_BLOCK_SIZE == HQS_HEADER_SIZE + HQ4K_PAYLOAD
HQ5K_PAYLOAD == 160
HQ5K_BLOCK_SIZE == HQS_HEADER_SIZE + HQ5K_PAYLOAD

Inf == 1000000000
NaN == Inf + 1
IsFinite(x) == x # NaN /\ x # Inf /\ x # -Inf

\* A Vec<T> or an array built by a loop, as the sequence of its elements, and
\* a table indexed from 0, as the function of its entries.
Vec(s) == s \o <<>>
Table(f) == f @@ <<>>

MaxOf(a, b) == IF a >= b THEN a ELSE b
MinOf(a, b) == IF a <= b THEN a ELSE b
Abs(a) == IF a < 0 THEN -a ELSE a

HalfMantSize == 2 ^ HalfMantBits
\* The exponent field of the infinities and the NaNs.
HalfExpMax == (2 ^ HalfExpBits) - 1
HalfSignBit == 2 ^ (HalfExpBits + HalfMantBits)
\* The bit pattern of +infinity.
HalfInfBits == HalfExpMax * HalfMantSize

\* The magnitude of the positive pattern p, read as a finite number: 4 * m
\* for a subnormal, 4 * (2^M + m) * 2^(e-1) for a normal number.  For the
\* pattern of +infinity this is the power of two that follows the largest
\* finite number, which is what rounding compares against.
HalfMagnitude(p) ==
    LET e == p \div HalfMantSize
        m == p % HalfMantSize
    IN IF e = 0 THEN 4 * m ELSE 4 * (HalfMantSize + m) * (2 ^ (e - 1))

\* f16::to_f32
HalfToF32(bits) ==
    LET s == bits \div HalfSignBit
        p == bits % HalfSignBit
    IN IF p > HalfInfBits THEN NaN
       ELSE IF p = HalfInfBits THEN (IF s = 0 THEN Inf ELSE -Inf)
       ELSE IF s = 0 THEN HalfMagnitude(p) ELSE -HalfMagnitude(p)

\* f16::from_f32 for a number that is not NaN: round to nearest, ties to the
\* even pattern, overflow to infinity.
HalfFromF32(v) ==
    LET a == Abs(v)
        d(p) == Abs(HalfMagnitude(p) - a)
        nearest == CHOOSE p \in 0..HalfInfBits :
                       \A o \in 0..HalfInfBits :
                           \/ d(p) < d(o)
                           \/ d(p) = d(o) /\ (p = o \/ p % 2 = 0)
        p0 == IF a >= HalfMagnitude(HalfInfBits) THEN HalfInfBits ELSE nearest
    IN IF v < 0 THEN HalfSignBit + p0 ELSE p0

\* f16::from_bits(bits as u16) for an i32 that is not negative.
HalfFromBits(bits) == bits % (2 * HalfSignBit)

\* common.rs, compute_group_params
compute_group_params(group) ==
    LET min == CHOOSE x \in {group[i] : i \in 1..Len(group)} :
                   \A i \in 1..Len(group) : x <= group[i]
        max == CHOOSE x \in {group[i] : i \in 1..Len(group)} :
                   \A i \in 1..Len(group) : x >= group[i]
        scale == MaxOf(max - min, EPS)
    IN [min |-> HalfToF32(HalfFromF32(min)),
        scale |-> MaxOf(HalfToF32(HalfFromF32(scale)), EPS)]

\* GridConfig::q_max
q_max(bits) == (2 ^ bits) - 1

\* ((val - min) / scale * q_max).round().clamp(0.0, q_max), for a finite val
\* and a scale that is positive or NaN: an index, or NaN.
QuantIndex(val, min, scale, qmax) ==
    IF min = NaN \/ scale = NaN THEN NaN
    ELSE IF min = Inf THEN (IF scale = Inf THEN NaN ELSE 0)
    ELSE IF min = -Inf THEN (IF scale = Inf THEN NaN ELSE qmax)
    ELSE IF scale = Inf THEN 0
    ELSE IF val <= min THEN 0
    ELSE MinOf(qmax, (2 * (val - min) * qmax + scale) \div (2 * scale))

\* The `as u8` cast of a clamped index: NaN becomes 0.
AsU8(q) == IF q = NaN THEN 0 ELSE q

\* The squared error of one value, times q_max squared:
\* (val - (min + q / q_max * scale))^2 with q the index of val.
SquaredError(val, min, scale, qmax) ==
    LET q == QuantIndex(val, min, scale, qmax)
    IN IF q = NaN \/ scale = Inf THEN NaN
       ELSE IF min = Inf \/ min = -Inf THEN Inf
       ELSE (qmax * (val - min) - q * scale) * (qmax * (val - min) - q * scale)

RECURSIVE SumErrors(_, _, _, _, _)
SumErrors(group, i, min, scale, qmax) ==
    IF i > Len(group) THEN 0
    ELSE LET e == SquaredError(group[i], min, scale, qmax)
             rest == SumErrors(group, i + 1, min, scale, qmax)
         IN IF e = NaN \/ rest = NaN THEN NaN
            ELSE IF e = Inf \/ rest = Inf THEN Inf
            ELSE e + rest

\* The mean squared error of a group under (min, scale), times
\* GROUP_SIZE * q_max^2: a number, Inf or NaN.
GroupMse(group, min, scale, qmax) == SumErrors(group, 1, min, scale, qmax)

\* The comparison a < b of two f32 values: false when either is NaN.
F32Less(a, b) == a # NaN /\ b # NaN /\ a < b

\* grid_search.rs, optimize_group: the half-width of the search, in ULPs.
SEARCH_RANGE == 4

\* One candidate of the grid, k-th in scan order (min_delta outer loop,
\* scale_delta inner loop): skipped, or its (min, scale) and its error.
GridCandidate(group, qmax, min_f16, scale_f16, k) ==
    LET width == 2 * SEARCH_RANGE + 1
        min_bits == min_f16 + (k \div width) - SEARCH_RANGE
        scale_bits == scale_f16 + (k % width) - SEARCH_RANGE
        test_min == HalfToF32(HalfFromBits(min_bits))
        test_scale == HalfToF32(HalfFromBits(scale_bits))
    IN IF min_bits < 0 \/ scale_bits <= 0 THEN [skip |-> TRUE]
       ELSE IF F32Less(test_scale, EPS) THEN [skip |-> TRUE]
       ELSE [skip |-> FALSE, min |-> test_min, scale |-> test_scale,
             mse |-> GroupMse(group, test_min, test_scale, qmax)]

RECURSIVE GridScan(_, _, _)
\* The two nested loops: the best candidate so far is replaced by a
\* candidate whose error is smaller.
GridScan(cands, k, best) ==
    IF k \notin DOMAIN cands THEN best
    ELSE IF ~cands[k].skip /\ F32Less(cands[k].mse, best.mse)
    THEN GridScan(cands, k + 1,
                  [mse |-> cands[k].mse, min |-> cands[k].min, scale |-> cands[k].scale])
    ELSE GridScan(cands, k + 1, best)

\* grid_search.rs, optimize_group
optimize_group(group, bits) ==
    LET qmax == q_max(bits)
        values == {group[i] : i \in 1..Len(group)}
        min_raw == CHOOSE x \in values : \A y \in values : x <= y
        max_raw == CHOOSE x \in values : \A y \in values : x >= y
        scale_raw == MaxOf(max_raw - min_raw, EPS)
        min_f16 == HalfFromF32(min_raw)
        scale_f16 == HalfFromF32(scale_raw)
        width == 2 * SEARCH_RANGE + 1
        cands == Vec([k \in 1..(width * width) |->
                         GridCandidate(group, qmax, min_f16, scale_f16, k - 1)])
        best == GridScan(cands, 1, [mse |-> Inf, min |-> HalfToF32(min_f16),
                                    scale |-> MaxOf(HalfToF32(scale_f16), EPS)])
    IN [min |-> best.min, scale |-> best.scale]

\* The group g (from 0) of a super-block: block[start..end].
GroupOf(block, g) == SubSeq(block, g * GROUP_SIZE + 1, (g + 1) * GROUP_SIZE)

\* grid_search.rs, fast_superblock
fast_superblock(block) ==
    Table([g \in 0..(NUM_GROUPS - 1) |-> compute_group_params(GroupOf(block, g))])

\* grid_search.rs, optimize_superblock: the parallel map over the groups,
\* collected in index order.
optimize_superblock(block, bits) ==
    Table([g \in 0..(NUM_GROUPS - 1) |-> optimize_group(GroupOf(block, g), bits)])

\* encode_header, lines 100-106: the four bytes of one group, the half of min
\* and then the half of scale, both little-endian.
GroupDescriptor(gp) ==
    LEBytes(HalfFromF32(gp.min), 2) \o LEBytes(HalfFromF32(gp.scale), 2)

\* common.rs, encode_header
encode_header(group_params) ==
    LET bytes == Table([g \in 0..(NUM_GROUPS - 1) |->
                           GroupDescriptor(group_params[g])])
    IN Vec([i \in 1..HQS_HEADER_SIZE |-> bytes[(i - 1) \div 4][((i - 1) % 4) + 1]])

\* quantize_superblock, lines 21-32: the index of every value of the block.
QuantIndices(block, group_params, qmax) ==
    Vec([i \in 1..SUPER_BLOCK_SIZE |->
            LET gp == group_params[(i - 1) \div GROUP_SIZE]
            IN AsU8(QuantIndex(block[i], gp.min, gp.scale, qmax))])

\* hq4k.rs, quantize_superblock, lines 39-43: two indices per byte, the even
\* one in the high nibble.
PackNibbles_low_first(q_indices) ==
    [i \in 1..HQ4K_PAYLOAD |->
        (q_indices[2 * (i - 1) + 2] % 16) * 16 + (q_indices[2 * (i - 1) + 1] % 16)]
PackNibbles(q_indices) ==
    [i \in 1..HQ4K_PAYLOAD |->
        (q_indices[2 * (i - 1) + 1] % 16) * 16 + (q_indices[2 * (i - 1) + 2] % 16)]

\* Bit j (from 0) of the 40-bit word of chunk c: bit j % 5 of index j \div 5.
ChunkBit_nibble_mask(q_indices, c, j) ==
    ((q_indices[c * 8 + (j \div 5) + 1] % 16) \div (2 ^ (j % 5))) % 2
ChunkBit(q_indices, c, j) ==
    ((q_indices[c * 8 + (j \div 5) + 1] % 32) \div (2 ^ (j % 5))) % 2

\* hq5k.rs, quantize_superblock: eight 5-bit indices, least significant
\* first, in five bytes.
PackFiveBits(q_indices) ==
    [i \in 1..HQ5K_PAYLOAD |->
        LET c == (i - 1) \div 5
            k == (i - 1) % 5
        IN ChunkBit(q_indices, c, 8 * k) + 2 * ChunkBit(q_indices, c, 8 * k + 1)
             + 4 * ChunkBit(q_indices, c, 8 * k + 2)
             + 8 * ChunkBit(q_indices, c, 8 * k + 3)
             + 16 * ChunkBit(q_indices, c, 8 * k + 4)
             + 32 * ChunkBit(q_indices, c, 8 * k + 5)
             + 64 * ChunkBit(q_indices, c, 8 * k + 6)
             + 128 * ChunkBit(q_indices, c, 8 * k + 7)]

\* The record of one super-block, given the parameters of its groups.
RecordOf(block, group_params, bits) ==
    LET q_indices == QuantIndices(block, group_params, q_max(bits))
    IN encode_header(group_params)
         \o (IF bits = 4 THEN PackNibbles(q_indices) ELSE PackFiveBits(q_indices))

\* hq4k.rs / hq5k.rs, quantize_superblock
quantize_superblock(block, use_mse, bits) ==
    RecordOf(block,
             IF use_mse THEN optimize_superblock(block, bits)
                        ELSE fast_superblock(block),
             bits)

\* common.rs, pad_to_superblock
pad_to_superblock_unpadded(data) == data
pad_to_superblock(data) ==
    LET remainder == Len(data) % SUPER_BLOCK_SIZE
    IN IF remainder = 0 THEN data
       ELSE data \o Zeros(SUPER_BLOCK_SIZE - remainder)

\* quantize_hq4k_internal, lines 67-72: the b-th super-block of the padded
\* input with every value that is not finite replaced by 0.0.
BlockOf(padded, b) ==
    Vec([i \in 1..SUPER_BLOCK_SIZE |->
            LET val == padded[b * SUPER_BLOCK_SIZE + i]
            IN IF IsFinite(val) THEN val ELSE 0])

\* hq4k_size / hq5k_size
RecordSize(bits) == IF bits = 4 THEN HQ4K_BLOCK_SIZE ELSE HQ5K_BLOCK_SIZE
hq4k_size(numel) ==
    ((numel + SUPER_BLOCK_SIZE - 1) \div SUPER_BLOCK_SIZE) * HQ4K_BLOCK_SIZE
hq5k_size(numel) ==
    ((numel + SUPER_BLOCK_SIZE - 1) \div SUPER_BLOCK_SIZE) * HQ5K_BLOCK_SIZE
\* QuantFormat::size_for, for HQ4K and HQ5K
size_for(bits, numel) == IF bits = 4 THEN hq4k_size(numel) ELSE hq5k_size(numel)

\* dequantize_hq4k, lines 104-108: the two indices of every payload byte.
UnpackNibbles(bytes) ==
    Vec([j \in 1..(2 * HQ4K_PAYLOAD) |->
            IF j % 2 = 1 THEN (bytes[(j + 1) \div 2] \div 16) % 16
                         ELSE bytes[j \div 2] % 16])

(***************************************************************************)
(* One call of quantize(data, format, use_mse) for HQ4K or HQ5K, with its  *)
(* parallel tasks.  The super-blocks are mapped in parallel and, when      *)
(* use_mse is set, so are the groups of each super-block; every task's     *)
(* result is collected at the index of its item.  A slot that holds <<>>   *)
(* has not been collected yet.                                             *)
(***************************************************************************)
\* padded.len() / SUPER_BLOCK_SIZE
num_blocks(d) == Len(pad_to_superblock(d)) \div SUPER_BLOCK_SIZE

\* The block a task of the outer map works on.
TaskBlock(b) == BlockOf(pad_to_superblock(input), b)

\* Rayon's collect of an indexed parallel iterator: the result of item i
\* lands at index i of the vector, whenever its task completes.
CollectAt_completion_order(vec, i, item) ==
    LET k == CHOOSE k \in 1..Len(vec) :
                 vec[k] = <<>> /\ \A j \in 1..(k - 1) : vec[j] # <<>>
    IN [vec EXCEPT ![k] = item]
CollectAt(vec, i, item) == [vec EXCEPT ![i + 1] = item]

\* Item i is collected while an item of lower index is still being computed.
Overtakes(vec, i) == \E j \in 1..i : vec[j] = <<>>

\* The ranges of groups handed to the worker threads: each range is run in
\* ascending order, the ranges interleave freely.
GroupChunks == {0..((NUM_GROUPS \div 2) - 1), (NUM_GROUPS \div 2)..(NUM_GROUPS - 1)}

\* quantize_hq4k_internal / quantize_hq5k_internal, before the parallel map.
StartQuantize(d, m, f) ==
    /\ input = d
    /\ mse_mode = m
    /\ format = f
    /\ params = [b \in 1..num_blocks(d) |-> [g \in 1..NUM_GROUPS |-> <<>>]]
    /\ results = [b \in 1..num_blocks(d) |-> <<>>]
    /\ output = <<>>
    /\ returned = FALSE
    /\ reordered = FALSE

\* lines 60-62: no super-block, an empty vector is returned.
ReturnEmpty ==
    /\ ~returned
    /\ num_blocks(input) = 0
    /\ output' = <<>>
    /\ returned' = TRUE
    /\ UNCHANGED <<input, mse_mode, format, params, results, reordered>>
    /\ UNCHANGED <<hnf_vars, htf_vars, pack_vars, rest_vars>>

\* The task of super-block b in fast mode: quantize_superblock runs
\* fast_superblock, a sequential loop.
BlockTask(b) ==
    /\ ~returned
    /\ ~mse_mode
    /\ results[b + 1] = <<>>
    /\ results' = CollectAt(results, b,
                            quantize_superblock(TaskBlock(b), FALSE, format))
    /\ reordered' = (reordered \/ Overtakes(results, b))
    /\ UNCHANGED <<input, mse_mode, format, params, output, returned>>
    /\ UNCHANGED <<hnf_vars, htf_vars, pack_vars, rest_vars>>

\* optimize_superblock, lines 92-99: the task of group g of super-block b.
GroupTask(b, g) ==
    /\ ~returned
    /\ mse_mode
    /\ params[b + 1][g + 1] = <<>>
    /\ \E c \in GroupChunks :
           g \in c /\ \A h \in c : h < g => params[b + 1][h + 1] # <<>>
    /\ params' = [params EXCEPT ![b + 1] =
                      CollectAt(@, g, optimize_group(GroupOf(TaskBlock(b), g), format))]
    /\ reordered' = (reordered \/ Overtakes(params[b + 1], g))
    /\ UNCHANGED <<input, mse_mode, format, results, output, returned>>
    /\ UNCHANGED <<hnf_vars, htf_vars, pack_vars, rest_vars>>

\* The rest of quantize_superblock once optimize_superblock has returned.
AssembleBlock(b) ==
    /\ ~returned
    /\ mse_mode
    /\ results[b + 1] = <<>>
    /\ \A g \in 1..NUM_GROUPS : params[b + 1][g] # <<>>
    /\ results' = CollectAt(results, b,
                            RecordOf(TaskBlock(b),
                                     [g \in 0..(NUM_GROUPS - 1) |-> params[b + 1][g + 1]],
                                     format))
    /\ reordered' = (reordered \/ Overtakes(results, b))
    /\ UNCHANGED <<input, mse_mode, format, params, output, returned>>
    /\ UNCHANGED <<hnf_vars, htf_vars, pack_vars, rest_vars>>

RECURSIVE ExtendAll(_, _)
\* lines 77-80: output.extend(block_data) for every element of results.
ExtendAll(out, rs) ==
    IF rs = <<>> THEN out ELSE ExtendAll(out \o Head(rs), Tail(rs))

\* lines 77-82, after collect has returned.
Collect ==
    /\ ~returned
    /\ num_blocks(input) > 0
    /\ \A b \in 1..Len(results) : results[b] # <<>>
    /\ output' = ExtendAll(<<>>, results)
    /\ returned' = TRUE
    /\ UNCHANGED <<input, mse_mode, format, params, results, reordered>>
    /\ UNCHANGED <<hnf_vars, htf_vars, pack_vars, rest_vars>>

(***************************************************************************)
(* SpecHqs: one call on an input of one of the lengths below, with values  *)
(* that are negative, positive, out of the range of half precision, and    *)
(* not finite.  In fast mode the input has up to two super-blocks; with    *)
(* the grid search it has at most one.                                     *)
(***************************************************************************)
FastLengths == {0, 1, SUPER_BLOCK_SIZE - 1, SUPER_BLOCK_SIZE, SUPER_BLOCK_SIZE + 1,
                2 * SUPER_BLOCK_SIZE}
PreciseLengths == {0, SUPER_BLOCK_SIZE - 1}

Sample(i) ==
    IF i % 37 = 5 THEN NaN
    ELSE IF i % 37 = 11 THEN Inf
    ELSE IF i % 37 = 23 THEN -Inf
    ELSE IF i % 100 = 0 THEN 70
    ELSE ((i * 7) % 41) - 20

DataOf(n) == Vec([i \in 1..n |-> Sample(i)])

InitHqs ==
    /\ HnfWriter_create
    /\ HTFWriter_new
    /\ PackIdle
    /\ RestIdle
    /\ \E f \in {4, 5} :
         \/ \E n \in FastLengths : StartQuantize(DataOf(n), FALSE, f)
         \/ \E n \in PreciseLengths : StartQuantize(DataOf(n), TRUE, f)

BlockTasks == \E b \in 0..(num_blocks(input) - 1) : BlockTask(b)
GroupTasks ==
    \E b \in 0..(num_blocks(input) - 1), g \in 0..(NUM_GROUPS - 1) : GroupTask(b, g)
AssembleBlocks == \E b \in 0..(num_blocks(input) - 1) : AssembleBlock(b)

NextHqs == ReturnEmpty \/ BlockTasks \/ GroupTasks \/ AssembleBlocks \/ Collect

SpecHqs == InitHqs /\ [][NextHqs]_vars

CeilDiv(n, d) == IF n % d = 0 THEN n \div d ELSE (n \div d) + 1

\* C17: for every input length n, zero and lengths that are not multiples of
\* 256 included, and in both modes, the HQ4K quantizer returns
\* ceil(n/256) * 256 bytes and the HQ5K quantizer ceil(n/256) * 288 bytes,
\* and hq4k_size, hq5k_size and QuantFormat::size_for give the same numbers.
C17_OutputSize ==
    returned =>
        LET n == Len(input)
        IN /\ format = 4 => /\ Len(output) = CeilDiv(n, 256) * 256
                            /\ hq4k_size(n) = CeilDiv(n, 256) * 256
           /\ format = 5 => /\ Len(output) = CeilDiv(n, 256) * 288
                            /\ hq5k_size(n) = CeilDiv(n, 256) * 288
           /\ size_for(format, n) = Len(output)

\* A call on an input whose length is not a multiple of 256 has returned two
\* HQ5K records.
C17_Witness ==
    /\ returned
    /\ Len(input) % SUPER_BLOCK_SIZE # 0
    /\ format = 5
    /\ Len(output) = 2 * HQ5K_BLOCK_SIZE

\* The comparison a <= b of two f32 values: false when either is NaN.
F32LessEq(a, b) == a # NaN /\ b # NaN /\ a <= b

\* The error of the pair the grid search returned for group g of block b, and
\* the error of the pair of the fast path for the same group.
OptimizedMse(b, g) ==
    LET gp == params[b + 1][g + 1]
    IN GroupMse(GroupOf(TaskBlock(b), g), gp.min, gp.scale, q_max(format))
FastMse(b, g) ==
    LET gp == compute_group_params(GroupOf(TaskBlock(b), g))
    IN GroupMse(GroupOf(TaskBlock(b), g), gp.min, gp.scale, q_max(format))

\* C18: for every group of 8 finite values and both bit widths, the pair
\* returned by optimize_group has a reconstruction error that is at most the
\* error of the pair of compute_group_params: the precise mode never has a
\* larger error than the fast mode.
C18_PreciseNeverWorse ==
    \A b \in 0..(Len(params) - 1), g \in 0..(NUM_GROUPS - 1) :
        params[b + 1][g + 1] # <<>> => F32LessEq(OptimizedMse(b, g), FastMse(b, g))

\* The sequential run: the records of the super-blocks, computed and appended
\* one after the other.
QuantizeSequential(d, m, f) ==
    ExtendAll(<<>>, [b \in 1..num_blocks(d) |->
                       quantize_superblock(BlockOf(pad_to_superblock(d), b - 1), m, f)])

\* The pair of group g of super-block b, computed on its own.
GroupParamsOf(b, g) ==
    IF mse_mode THEN optimize_group(GroupOf(TaskBlock(b), g), format)
                ELSE compute_group_params(GroupOf(TaskBlock(b), g))

\* C19: whatever the order in which the parallel tasks complete, the record
\* of super-block b is at output bytes [b * recordSize, (b + 1) * recordSize),
\* the descriptor of group g is at bytes [4g, 4g + 4) of the header of its
\* record, and the output equals that of a sequential run.
C19_OrderIndependent ==
    returned =>
        LET rs == RecordSize(format)
        IN /\ \A b \in 0..(num_blocks(input) - 1) :
                  SubSeq(output, b * rs + 1, (b + 1) * rs)
                      = quantize_superblock(TaskBlock(b), mse_mode, format)
           /\ \A b \in 0..(num_blocks(input) - 1), g \in 0..(NUM_GROUPS - 1) :
                  SubSeq(output, b * rs + 4 * g + 1, b * rs + 4 * g + 4)
                      = GroupDescriptor(GroupParamsOf(b, g))
           /\ output = QuantizeSequential(input, mse_mode, format)

\* A call has returned records after a task completed before a task of
\* lower index.
C19_Witness == returned /\ reordered /\ output # <<>>

(***************************************************************************)
(* SpecPack: the indices of one super-block are packed into an HQ4K        *)
(* payload, and the payload is unpacked.  The index vectors are the        *)
(* arithmetic progressions modulo 16: every pair of nibbles occurs.        *)
(***************************************************************************)
IndexVectors ==
    {Vec([j \in 1..SUPER_BLOCK_SIZE |-> (a * (j - 1) + c) % (q_max(4) + 1)]) :
        a \in 0..q_max(4), c \in 0..q_max(4)}

InitPack ==
    /\ HnfWriter_create
    /\ HTFWriter_new
    /\ HqsIdle
    /\ RestIdle
    /\ indices \in IndexVectors
    /\ payload = <<>>
    /\ unpacked = <<>>

\* hq4k.rs, quantize_superblock, lines 39-43
Pack ==
    /\ payload = <<>>
    /\ payload' = PackNibbles(indices)
    /\ UNCHANGED <<indices, unpacked, hnf_vars, htf_vars, hqs_vars, rest_vars>>

\* dequantize_hq4k, lines 102-108
Unpack ==
    /\ payload # <<>>
    /\ unpacked = <<>>
    /\ unpacked' = UnpackNibbles(payload)
    /\ UNCHANGED <<indices, payload, hnf_vars, htf_vars, hqs_vars, rest_vars>>

NextPack == Pack \/ Unpack

SpecPack == InitPack /\ [][NextPack]_vars

\* C20: byte i of an HQ4K payload holds index 2i in its high nibble and
\* index 2i + 1 in its low nibble, and unpacking a packed vector of indices
\* in [0, 15] gives the vector back.
C20_NibbleRoundTrip ==
    /\ payload # <<>> =>
           \A i \in 0..(HQ4K_PAYLOAD - 1) :
               /\ payload[i + 1] \div 16 = indices[2 * i + 1]
               /\ payload[i + 1] % 16 = indices[2 * i + 2]
    /\ unpacked # <<>> => unpacked = indices

\* A vector whose first two indices differ has been packed and unpacked.
C20_Witness == unpacked # <<>> /\ indices[1] # indices[2]

\* dequantize_hq5k, lines 116-119: bit j (from 0) of the 40-bit word read
\* from the five bytes of chunk c, least significant byte first.
WordBit(bytes, c, j) == (bytes[5 * c + (j \div 8) + 1] \div (2 ^ (j % 8))) % 2

\* dequantize_hq5k, lines 113-124: (bits >> (k * 5)) & 0x1F for the eight
\* indices of every chunk.
UnpackFiveBits(bytes) ==
    Vec([j \in 1..SUPER_BLOCK_SIZE |->
            LET c == (j - 1) \div 8
                k == (j - 1) % 8
            IN WordBit(bytes, c, 5 * k) + 2 * WordBit(bytes, c, 5 * k + 1)
                 + 4 * WordBit(bytes, c, 5 * k + 2)
                 + 8 * WordBit(bytes, c, 5 * k + 3)
                 + 16 * WordBit(bytes, c, 5 * k + 4)])

(***************************************************************************)
(* SpecPack5: the indices of one super-block are packed into an HQ5K       *)
(* payload, and the payload is unpacked.  The index vectors are the        *)
(* arithmetic progressions modulo 32.                                      *)
(***************************************************************************)
IndexVectors5 ==
    {Vec([j \in 1..SUPER_BLOCK_SIZE |-> (a * (j - 1) + c) % (q_max(5) + 1)]) :
        a \in 0..q_max(5), c \in 0..q_max(4)}

InitPack5 ==
    /\ HnfWriter_create
    /\ HTFWriter_new
    /\ HqsIdle
    /\ RestIdle
    /\ indices \in IndexVectors5
    /\ payload = <<>>
    /\ unpacked = <<>>

\* hq5k.rs, quantize_superblock, lines 39-52
Pack5 ==
    /\ payload = <<>>
    /\ payload' = PackFiveBits(indices)
    /\ UNCHANGED <<indices, unpacked, hnf_vars, htf_vars, hqs_vars, rest_vars>>

\* dequantize_hq5k, lines 111-124
Unpack5 ==
    /\ payload # <<>>
    /\ unpacked = <<>>
    /\ unpacked' = UnpackFiveBits(payload)
    /\ UNCHANGED <<indices, payload, hnf_vars, htf_vars, hqs_vars, rest_vars>>

NextPack5 == Pack5 \/ Unpack5

SpecPack5 == InitPack5 /\ [][NextPack5]_vars

\* C21: in an HQ5K payload, index k of every chunk of 8 indices is at bits
\* 5k..5k+4 of the chunk's 40-bit word, the word is stored as 5 little-endian
\* bytes, the 32 chunks fill exactly 160 bytes, and unpacking recovers all
\* 256 indices, for every index vector over [0, 31].
C21_FiveBitRoundTrip ==
    /\ payload # <<>> =>
           /\ Len(payload) = 160
           /\ \A c \in 0..31, k \in 0..7, t \in 0..4 :
                  (payload[5 * c + ((5 * k + t) \div 8) + 1] \div (2 ^ ((5 * k + t) % 8))) % 2
                      = (indices[8 * c + k + 1] \div (2 ^ t)) % 2
    /\ unpacked # <<>> => Len(unpacked) = 256 /\ unpacked = indices

\* A vector that holds an index above 15 and two different neighbours has
\* been packed and unpacked.
C21_Witness ==
    /\ unpacked # <<>>
    /\ indices[1] # indices[2]
    /\ \E j \in 1..Len(indices) : indices[j] > 15

(***************************************************************************)
(* dequantize (hqs/mod.rs 120-137, hq4k.rs 85-124, hq5k.rs 94-140).  A     *)
(* reconstructed value min + q / q_max * scale is kept as the number       *)
(* q_max * min + q * scale, that is, times q_max.                          *)
(***************************************************************************)
\* f32::max: the other operand when one is NaN.
F32Max(a, b) == IF a = NaN THEN b ELSE IF b = NaN THEN a ELSE MaxOf(a, b)

\* common.rs, decode_header
decode_header(hdr) ==
    Table([g \in 0..(NUM_GROUPS - 1) |->
              [min |-> HalfToF32(HalfFromBits(LEValue(hdr, 4 * g, 2))),
               scale |-> F32Max(HalfToF32(HalfFromBits(LEValue(hdr, 4 * g + 2, 2))), EPS)]])

\* gp.min + q / Q_MAX * gp.scale, times Q_MAX; the scale is positive.
Reconstruct(q, gp, qmax) ==
    IF gp.min = NaN \/ gp.scale = NaN THEN NaN
    ELSE IF gp.scale = Inf
         THEN (IF q = 0 \/ gp.min = -Inf THEN NaN ELSE Inf)
    ELSE IF gp.min = Inf \/ gp.min = -Inf THEN gp.min
    ELSE qmax * gp.min + q * gp.scale

\* The loop body of dequantize_hq4k / dequantize_hq5k for the record rec:
\* the 256 values of one super-block.
DecodeRecord(rec, nbits) ==
    LET group_params == decode_header(SubSeq(rec, 1, HQS_HEADER_SIZE))
        bytes == SubSeq(rec, HQS_HEADER_SIZE + 1, Len(rec))
        q == IF nbits = 4 THEN UnpackNibbles(bytes) ELSE UnpackFiveBits(bytes)
    IN Vec([i \in 1..SUPER_BLOCK_SIZE |->
               Reconstruct(q[i], group_params[(i - 1) \div GROUP_SIZE], q_max(nbits))])

RECURSIVE DecodeRecords(_, _, _, _)
\* for b in 0..num_blocks
DecodeRecords(bytes, nbits, b, nblocks) ==
    IF b >= nblocks THEN <<>>
    ELSE DecodeRecord(SubSeq(bytes, b * RecordSize(nbits) + 1, (b + 1) * RecordSize(nbits)),
                      nbits)
           \o DecodeRecords(bytes, nbits, b + 1, nblocks)

\* output.truncate(numel)
Truncate_none(out, n) == out
Truncate(out, n) == SubSeq(out, 1, MinOf(n, Len(out)))

\* dequantize_hq4k / dequantize_hq5k
dequantize(bytes, nbits, n) ==
    IF bytes = <<>> THEN Zeros(n)
    ELSE Truncate(DecodeRecords(bytes, nbits, 0, Len(bytes) \div RecordSize(nbits)), n)

\* One call of dequantize, on the bytes quantize returned or on no bytes,
\* for the length of the quantized input or a length up to MaxWanted.
MaxWanted == 3

Dequantize ==
    /\ returned
    /\ wanted_len = -1
    /\ \E d \in {output, <<>>}, n \in {Len(input)} \cup 0..MaxWanted :
          /\ encoded' = d
          /\ wanted_len' = n
          /\ decoded' = dequantize(d, format, n)
    /\ UNCHANGED <<hnf_vars, htf_vars, hqs_vars, pack_vars, name_vars, driver_vars,
                   validate_vars>>

(***************************************************************************)
(* SpecCodec: one call of quantize as in SpecHqs, then one of dequantize.  *)
(***************************************************************************)
NextCodec == NextHqs \/ Dequantize

SpecCodec == InitHqs /\ [][NextCodec]_vars

\* C22: for every input v, of any length (0 and lengths that are not
\* multiples of 256 included), both formats and both modes,
\* dequantize(quantize(v), len(v)) returns exactly len(v) values, and
\* decoding an empty byte string with wanted length n returns n zeros.
C22_DecodedLength ==
    wanted_len >= 0 =>
        /\ (encoded = output /\ wanted_len = Len(input)) => Len(decoded) = Len(input)
        /\ encoded = <<>> =>
               /\ Len(decoded) = wanted_len
               /\ \A i \in 1..wanted_len : decoded[i] = 0

\* The records of an input whose length is not a multiple of 256, quantized
\* with the grid search, have been decoded to that length.
C22_Witness ==
    /\ wanted_len = Len(input)
    /\ encoded = output
    /\ mse_mode
    /\ Len(input) % SUPER_BLOCK_SIZE # 0
    /\ Len(decoded) > MaxWanted

(***************************************************************************)
(* resolve_tensor_name (builder.rs 59-99).  A name is the sequence of its  *)
(* characters.                                                             *)
(***************************************************************************)
BlockType_TextModel == 0
BlockType_Vision == 1
BlockType_Audio == 2
BlockType_Cortex == 7
BlockType_CodeExec == 8
BlockType_Tools == 12
\* Every variant of BlockType, by its discriminant.
BlockTypes == BlockType_TextModel..BlockType_Tools

\* str::starts_with
starts_with(str, prefix) ==
    Len(str) >= Len(prefix) /\ SubSeq(str, 1, Len(prefix)) = prefix

\* The prefix of the match arm of target_block; <<>> for the arm `_`.
BlockPrefix(target_block) ==
    IF target_block = BlockType_TextModel THEN <<"t", "e", "x", "t", ".">>
    ELSE IF target_block = BlockType_CodeExec THEN <<"c", "o", "d", "e", ".">>
    ELSE IF target_block = BlockType_Cortex THEN <<"c", "o", "r", "t", "e", "x", ".">>
    ELSE IF target_block = BlockType_Vision THEN <<"v", "i", "s", "i", "o", "n", ".">>
    ELSE IF target_block = BlockType_Audio THEN <<"a", "u", "d", "i", "o", ".">>
    ELSE <<>>

\* resolve_tensor_name
resolve_tensor_name_always_prefixed(canonical_name, target_block) ==
    BlockPrefix(target_block) \o canonical_name
resolve_tensor_name(canonical_name, target_block) ==
    IF BlockPrefix(target_block) = <<>> THEN canonical_name
    ELSE IF starts_with(canonical_name, BlockPrefix(target_block)) THEN canonical_name
    ELSE BlockPrefix(target_block) \o canonical_name

(***************************************************************************)
(* SpecNames: a name made of at most MaxNameParts pieces (a modality word, *)
(* a dot, another word) is resolved for a block, and the result is         *)
(* resolved again.                                                         *)
(***************************************************************************)
MaxNameParts == 3

NamePieces ==
    {<<"t", "e", "x", "t">>, <<"c", "o", "d", "e">>, <<"c", "o", "r", "t", "e", "x">>,
     <<"v", "i", "s", "i", "o", "n">>, <<"a", "u", "d", "i", "o">>, <<".">>, <<"w">>}

RECURSIVE NamesOf(_)
\* The names made of exactly n pieces.
NamesOf(n) ==
    IF n = 0 THEN {<<>>}
    ELSE {head \o piece : head \in NamesOf(n - 1), piece \in NamePieces}

Names == UNION {NamesOf(n) : n \in 0..MaxNameParts}

InitNames ==
    /\ HnfWriter_create
    /\ HTFWriter_new
    /\ HqsIdle
    /\ PackIdle
    /\ DecIdle
    /\ DriverIdle
    /\ ValidateIdle
    /\ tensor_name \in Names
    /\ name_block \in BlockTypes
    /\ resolved = <<>>

\* One call, on the canonical name or on the name the last call returned.
Resolve ==
    /\ Len(resolved) < 2
    /\ resolved' = Append(resolved,
                          resolve_tensor_name(IF resolved = <<>> THEN tensor_name
                                              ELSE resolved[Len(resolved)],
                                              name_block))
    /\ UNCHANGED <<tensor_name, name_block>>
    /\ UNCHANGED <<hnf_vars, htf_vars, hqs_vars, pack_vars, dec_vars, driver_vars,
                   validate_vars>>

SpecNames == InitNames /\ [][Resolve]_vars

\* The five prefixes of the claim.
ClaimPrefix(b) ==
    CASE b = 0 -> <<"t", "e", "x", "t", ".">>
      [] b = 8 -> <<"c", "o", "d", "e", ".">>
      [] b = 7 -> <<"c", "o", "r", "t", "e", "x", ".">>
      [] b = 1 -> <<"v", "i", "s", "i", "o", "n", ".">>
      [] b = 2 -> <<"a", "u", "d", "i", "o", ".">>

\* C23: resolve_tensor_name adds the prefix of the target block (text.,
\* code., cortex., vision., audio.) exactly once: a name that already starts
\* with it is returned unchanged, so resolving a resolved name changes
\* nothing, and for every other block type the name is returned unchanged.
C23_PrefixOnce ==
    /\ Len(resolved) >= 1 =>
           IF name_block \in {0, 1, 2, 7, 8}
           THEN LET prefix == ClaimPrefix(name_block)
                IN /\ starts_with(tensor_name, prefix) => resolved[1] = tensor_name
                   /\ ~starts_with(tensor_name, prefix) =>
                          resolved[1] = prefix \o tensor_name
           ELSE resolved[1] = tensor_name
    /\ Len(resolved) = 2 => resolved[2] = resolved[1]

\* A name got its prefix from the first call and was left alone by the
\* second.
C23_Witness == Len(resolved) = 2 /\ resolved[1] # tensor_name

(***************************************************************************)
(* The converter driver (main.rs 111-254): process_model for every model   *)
(* given, in the order text, vision, audio, cortex, code; then the         *)
(* execution hints; then the tokenizer; then finalize.  The position of    *)
(* the driver is read from the last call it made on the writer.  An error  *)
(* of a call ends the run (the `?` operator).                              *)
(***************************************************************************)
BLOCK_EXEC_HINTS == 10

\* main.rs 121-174: the order of the process_model calls.
ModelOrder == <<BlockType_TextModel, BlockType_Vision, BlockType_Audio,
                BlockType_Cortex, BlockType_CodeExec>>

\* At most MaxTensors tensors in one model file.
MaxTensors == 1

\* serde_json::to_vec of the combined hints, a JSON object that is never
\* empty; the tokenizer blob of build_htf_multi, here the one without domain.
HintsJson == <<123, 34, 116, 34, 58, 49, 125>>
DriverHtf == build(<<>>, TRUE)

\* The place in ModelOrder of the model whose process_model ran last.
DonePos ==
    IF last.op = "create" THEN 0
    ELSE CHOOSE i \in 1..Len(ModelOrder) : ModelOrder[i] = last.block_id

\* The models still to be processed, by their place in ModelOrder.
Remaining ==
    {j \in (DonePos + 1)..Len(ModelOrder) : ModelOrder[j] \in models}

NextModel ==
    ModelOrder[CHOOSE j \in Remaining : \A k \in Remaining : j <= k]

\* main.rs 195-217: the models that give a tokenizer source.
TokSources ==
    models \cap {BlockType_TextModel, BlockType_CodeExec, BlockType_Cortex,
                 BlockType_Audio}

\* process_model, builder.rs 132-164: one pass of the loop over the tensors.
ProcessTensor ==
    /\ last.ok
    /\ \E d \in Payloads :
          \/ /\ last.op = "write_tensor"
             /\ Len(tensor_manifests[last.block_id]) < MaxTensors
             /\ write_tensor(last.block_id, d)
          \/ /\ last.op \in {"create", "finalize_block"}
             /\ Remaining # {}
             /\ write_tensor(NextModel, d)

\* process_model, builder.rs 175: the loop is over.
FinishModel ==
    /\ last.ok
    /\ \/ last.op = "write_tensor" /\ finalize_block(last.block_id)
       \/ /\ last.op \in {"create", "finalize_block"}
          /\ Remaining # {}
          /\ finalize_block(NextModel)

\* main.rs 185: write_combined_hints calls writer.write_execution_hints.
WriteHints ==
    /\ last.ok
    /\ last.op = "finalize_block"
    /\ Remaining = {}
    /\ write_block(BLOCK_EXEC_HINTS, HintsJson)

\* main.rs 220-223: writer.write_tokenizer
WriteTokenizer ==
    /\ last.ok
    /\ last.op = "write_block"
    /\ last.block_id = BLOCK_EXEC_HINTS
    /\ TokSources # {}
    /\ write_block(BLOCK_TOKENIZER, DriverHtf)

\* main.rs 254: writer.finalize(manifest)
DriverFinalize ==
    /\ last.ok
    /\ last.op = "write_block"
    /\ \/ last.block_id = BLOCK_TOKENIZER
       \/ last.block_id = BLOCK_EXEC_HINTS /\ TokSources = {}
    /\ \E m \in ManifestBytes : finalize(m)

\* main.rs 90-100: at least one model is given.
InitDriver ==
    /\ HnfWriter_create
    /\ HTFWriter_new
    /\ HqsIdle
    /\ PackIdle
    /\ DecIdle
    /\ NameIdle
    /\ ValidateIdle
    /\ models \in (SUBSET {ModelOrder[i] : i \in 1..Len(ModelOrder)}) \ {{}}

NextDriver ==
    ProcessTensor \/ FinishModel \/ WriteHints \/ WriteTokenizer \/ DriverFinalize

SpecDriver == InitDriver /\ [][NextDriver]_vars

\* C24: the driver issues its block writes in ascending slot id (the model
\* blocks 0x0, 0x1, 0x2, 0x7, 0x8, then the tokenizer 0x9, then the execution
\* hints 0xA), so in the file it produces the offsets of the block table
\* increase with the slot id.
C24_DriverWritesAscending ==
    /\ in_order
    /\ finalized =>
           \A s \in 0..15, t \in 0..15 :
               (s < t /\ StoredTable[s].size > 0 /\ StoredTable[t].size > 0)
                   => StoredTable[s].offset < StoredTable[t].offset

(***************************************************************************)
(* An output abandoned during finalize.  finalize takes the writer by      *)
(* value and returns at the first error (`?`), so after an error no other  *)
(* call follows.  The file is a BufWriter: the rewritten header and block  *)
(* table (576 bytes) stay in its buffer until the flush that ends finalize *)
(* and reach the file together, so an error leaves the file with the       *)
(* padding, or with the padding and the manifest, and the head untouched.  *)
(***************************************************************************)
\* Variant of finalize_abandoned that has rewritten the header when the
\* error comes.
finalize_abandoned_header_first(manifest_bytes) ==
    /\ ~finalized
    /\ last.op # "finalize"
    /\ UNCHANGED <<htf_vars, hqs_vars, pack_vars, rest_vars>>
    /\ LET a == align_32([file |-> file, current_offset |-> current_offset])
           header1 == [header EXCEPT
                          !.manifest_offset = a.current_offset,
                          !.manifest_size = Len(manifest_bytes),
                          !.file_size = a.current_offset + Len(manifest_bytes)]
       IN /\ file' = WriteAt(a.file \o manifest_bytes, 0,
                             HnfHeader_to_bytes(header1))
          /\ current_offset' = a.current_offset
    /\ last' = [op |-> "finalize", block_id |-> 0, ok |-> FALSE]
    /\ UNCHANGED <<header, block_table, tensor_manifests, block_hashers,
                   calls, finalized, history_vars>>

\* HnfWriter::finalize that returns an error before its last flush.
finalize_abandoned(manifest_bytes) ==
    /\ ~finalized
    /\ last.op # "finalize"
    /\ UNCHANGED <<htf_vars, hqs_vars, pack_vars, rest_vars>>
    /\ LET a == align_32([file |-> file, current_offset |-> current_offset])
       IN /\ file' \in {a.file, a.file \o manifest_bytes}
          /\ current_offset' = a.current_offset
    /\ last' = [op |-> "finalize", block_id |-> 0, ok |-> FALSE]
    /\ UNCHANGED <<header, block_table, tensor_manifests, block_hashers,
                   calls, finalized, history_vars>>

\* The writer exists: finalize has not taken it.
Live == last.op # "finalize"

WriteBlockLive == Live /\ WriteBlock
WriteTensorLive == Live /\ WriteTensor
FinalizeBlockLive == Live /\ FinalizeBlock
FinalizeLive == Live /\ Finalize
FinalizeAbandoned == \E m \in ManifestBytes : finalize_abandoned(m)

NextAbandon ==
    \/ WriteBlockLive
    \/ WriteTensorLive
    \/ FinalizeBlockLive
    \/ FinalizeLive
    \/ FinalizeAbandoned

SpecAbandon == Init /\ [][NextAbandon]_vars

RoundUp32(n) == ((n + 31) \div 32) * 32

\* The non-empty slots of the table bt.
NonEmpty(bt) == {s \in 0..15 : bt[s].size > 0}

\* C26: if the caller writes the slots in ascending id (so that all writes
\* to one slot are consecutive), the first non-empty block starts at offset
\* 576, every following non-empty block starts at the end of the previous
\* one rounded up to a multiple of 32, and the manifest starts at most 31
\* bytes after the end of the last payload.
C26_PayloadsPacked ==
    (finalized /\ in_order) =>
        LET bt == StoredTable IN
        /\ \A t \in NonEmpty(bt) :
               IF \A s \in NonEmpty(bt) : t <= s
               THEN bt[t].offset = HEADER_SIZE + 512
               ELSE \A s \in 0..15 :
                        PreviousNonEmpty(bt, s, t) =>
                            bt[t].offset = RoundUp32(bt[s].offset + bt[s].size)
        /\ \A s \in NonEmpty(bt) :
               (\A t \in NonEmpty(bt) : t <= s) =>
                   /\ StoredHeader.manifest_offset >= bt[s].offset + bt[s].size
                   /\ StoredHeader.manifest_offset - (bt[s].offset + bt[s].size) <= 31

(***************************************************************************)
(* What a reader finds in the payload of a domain of the blob: the config  *)
(* section, then the vocab block (count and token entries), then the       *)
(* merges block (count and pairs).                                         *)
(***************************************************************************)
\* n rounded up to the next multiple of a.
RoundUp(n, a) == ((n + a - 1) \div a) * a

\* The bytes of the i-th domain, i counted from 0.
BlobPayload(i) ==
    SubSeq(blob, BlobDomain(i).data_offset + 1,
           BlobDomain(i).data_offset + BlobDomain(i).data_size)

\* The end of the config section of payload p: the JSON with its length in
\* v1.2; in v1.3 the binary configs of the domain type, for text and code
\* followed by the count of added tokens (none here) and padded to 8.
ConfigEnd(p, v13, domain_type) ==
    IF ~v13 THEN RoundUp(4 + LEValue(p, 0, 4), 4)
    ELSE IF domain_type = HTF_DOMAIN_AUDIO THEN Len(AudioDomainConfigBin_to_bytes)
    ELSE IF domain_type = HTF_DOMAIN_CODE
         THEN RoundUp(Len(TextDomainConfigBin_to_bytes(0, 0))
                        + Len(CodeDomainConfigBin_to_bytes) + 4, 8)
    ELSE RoundUp(Len(TextDomainConfigBin_to_bytes(0, 0)) + 4, 8)

RECURSIVE TokensEnd(_, _, _)
\* The end of count token entries that start at pos: id (4), length (2),
\* flags, score type, the token bytes, padded to 4.
TokensEnd(p, pos, count) ==
    IF count = 0 THEN pos
    ELSE TokensEnd(p, RoundUp(pos + 8 + LEValue(p, pos + 4, 2), 4), count - 1)

\* The payload of domain i goes on after its config section.
HasVocabBlock(i) ==
    LET p == BlobPayload(i) IN
    /\ p # <<>>
    /\ Len(p) > ConfigEnd(p, use_v13, BlobDomain(i).domain_type)

\* The payload of domain i goes on after its vocab block.
HasMergesBlock(i) ==
    LET p == BlobPayload(i)
        c == ConfigEnd(p, use_v13, BlobDomain(i).domain_type)
    IN /\ HasVocabBlock(i)
       /\ Len(p) > TokensEnd(p, c + 4, LEValue(p, c, 4))

\* C27: in every entry of the domain table written by build, HAS_VOCAB is
\* set if and only if the payload of the domain contains a vocab block, and
\* HAS_MERGES if and only if it contains a merges block, for every domain
\* type, vocabulary, merges list and version.
C27_FlagsMatchPayload ==
    Built =>
        \A i \in 0..(BlobNumDomains - 1) :
            /\ FlagsHas(BlobDomain(i).domain_flags, HTF_FLAG_HAS_VOCAB)
                  <=> HasVocabBlock(i)
            /\ FlagsHas(BlobDomain(i).domain_flags, HTF_FLAG_HAS_MERGES)
                  <=> HasMergesBlock(i)

\* C28: after any sequence of write_tensor, write_block and finalize_block
\* calls, every tensor manifest entry recorded for a slot lies inside the
\* block of the slot, and the entries of one slot are in call order with
\* byte ranges that do not overlap.
C28_TensorsInsideBlock ==
    \A s \in 0..15 :
        LET entries == tensor_manifests[s] IN
        /\ \A k \in 1..Len(entries) :
               /\ block_table[s].offset <= entries[k].offset
               /\ entries[k].offset + entries[k].size
                     <= block_table[s].offset + block_table[s].size
        /\ \A k \in 1..(Len(entries) - 1) :
               entries[k].offset + entries[k].size <= entries[k + 1].offset

(***************************************************************************)
(* htf/validate.rs: validate_htf.  The report keeps `valid`, the errors as *)
(* a set of <<message, domain>> pairs (domain -1 for the errors of the     *)
(* whole blob) and the domains whose payload bytes the call has read.  A   *)
(* slice or index beyond the end of the input panics: then nothing is      *)
(* returned.                                                               *)
(***************************************************************************)
HTF1_MAGIC == <<72, 84, 70, 49>>
\* The largest count of domains that validate_htf accepts.
MAX_DOMAINS == 8

TextDomainConfigBin_SIZE == 32
VisionDomainConfigBin_SIZE == 64
AudioDomainConfigBin_SIZE == 64
CodeDomainConfigBin_SIZE == 32

\* validate_htf, lines 163-167: the entry i of the domain table of data.
ReadDomain(data, i) ==
    LET start == HTF_HEADER_SIZE + i * HTF_DOMAIN_ENTRY_SIZE
    IN [domain_type |-> data[start + 1],
        domain_flags |-> data[start + 2],
        vocab_size |-> LEValue(data, start + 4, 4),
        data_offset |-> LEValue(data, start + 8, 8),
        data_size |-> LEValue(data, start + 16, 8)]

\* A result returned at once with one error.
Invalid(message) ==
    [returned |-> TRUE, valid |-> FALSE, errors |-> {<<message, -1>>},
     payload_read |-> {}]

\* validate_htf, lines 181-205: the errors of the entry d, the i-th.
TableErrors(data, d, i, primaries) ==
    (IF i \in primaries /\ \E j \in primaries : j < i
     THEN {<<"Multiple domains marked as PRIMARY", i>>} ELSE {})
    \cup (IF i \in primaries /\ d.domain_type # HTF_DOMAIN_TEXT
          THEN {<<"Primary domain must be TEXT", i>>} ELSE {})
    \cup (IF d.data_offset + d.data_size > Len(data)
          THEN {<<"Domain data exceeds file bounds", i>>} ELSE {})

\* validate_v13_domains: the smallest payload of a domain of this type.
MinConfigSize(domain_type) ==
    IF domain_type = HTF_DOMAIN_TEXT THEN TextDomainConfigBin_SIZE
    ELSE IF domain_type = HTF_DOMAIN_VISION THEN VisionDomainConfigBin_SIZE
    ELSE IF domain_type = HTF_DOMAIN_AUDIO THEN AudioDomainConfigBin_SIZE
    ELSE IF domain_type = HTF_DOMAIN_CODE
         THEN TextDomainConfigBin_SIZE + CodeDomainConfigBin_SIZE
    ELSE 0

\* validate_v13_domains reads the config of the domain d: a text domain
\* with a payload of the size of a config or more.
ReadsConfig(d) ==
    /\ d.data_size # 0
    /\ d.domain_type = HTF_DOMAIN_TEXT
    /\ d.data_size >= TextDomainConfigBin_SIZE

\* The reads data[offset + 16 .. offset + 32) of the config go beyond the
\* end of data.
ConfigReadPanics(data, d) ==
    ReadsConfig(d) /\ d.data_offset + TextDomainConfigBin_SIZE > Len(data)

\* validate_v13_domains: the errors of the domain d, the i-th.
ConfigErrors(data, d, i) ==
    IF d.data_size = 0 THEN {}
    ELSE IF d.data_size < MinConfigSize(d.domain_type)
    THEN {<<"domain too small for config", i>>}
    ELSE IF ReadsConfig(d) /\ ~ConfigReadPanics(data, d)
              /\ data[d.data_offset + 23] > 3
    THEN {<<"invalid encoding_type", i>>}
    ELSE {}

\* validate_htf, lines 158-232: the loop over the domain table, the check
\* for a primary domain and validate_v13_domains.  valid is false exactly
\* when an error was pushed.
validate_domains(data, is_v13, errors0) ==
    LET n == data[9]
        ds == [i \in 0..(n - 1) |-> ReadDomain(data, i)]
        primaries == {i \in 0..(n - 1) :
                         FlagsHas(ds[i].domain_flags, HTF_FLAG_IS_PRIMARY)}
        errors1 == errors0
                     \cup UNION {TableErrors(data, ds[i], i, primaries) :
                                   i \in 0..(n - 1)}
                     \cup (IF primaries = {}
                           THEN {<<"No domain marked as PRIMARY", -1>>} ELSE {})
        errors2 == IF is_v13
                   THEN errors1 \cup UNION {ConfigErrors(data, ds[i], i) :
                                               i \in 0..(n - 1)}
                   ELSE errors1
    IN IF is_v13 /\ \E i \in 0..(n - 1) : ConfigReadPanics(data, ds[i])
       THEN [returned |-> FALSE, valid |-> FALSE, errors |-> {},
             payload_read |-> {i \in 0..(n - 1) : ReadsConfig(ds[i])}]
       ELSE [returned |-> TRUE, valid |-> errors2 = {}, errors |-> errors2,
             payload_read |-> IF is_v13
                              THEN {i \in 0..(n - 1) : ReadsConfig(ds[i])}
                              ELSE {}]

\* The magic of data is one that validate_htf knows.
KnownMagic(data) == SubSeq(data, 1, 4) \in {HTF3_MAGIC, HTF_MAGIC, HTF1_MAGIC}

\* validate_htf
validate_htf(data) ==
    IF Len(data) < HTF_HEADER_SIZE THEN Invalid("File too small")
    ELSE IF ~KnownMagic(data) THEN Invalid("Invalid magic")
    ELSE IF data[9] = 0 THEN Invalid("num_domains is 0")
    ELSE IF data[9] > MAX_DOMAINS THEN Invalid("num_domains above 8")
    ELSE
      LET errors0 ==
              (IF LEValue(data, 16, 8) # Len(data)
               THEN {<<"total_size mismatch", -1>>} ELSE {})
              \cup (IF compute_checksum_for_validation(data) # LEValue(data, 24, 8)
                    THEN {<<"Checksum mismatch", -1>>} ELSE {})
      IN IF Len(data) < HTF_HEADER_SIZE + data[9] * HTF_DOMAIN_ENTRY_SIZE
         THEN [returned |-> TRUE, valid |-> FALSE,
               errors |-> errors0 \cup {<<"File too small for domain table", -1>>},
               payload_read |-> {}]
         ELSE validate_domains(data, SubSeq(data, 1, 4) = HTF3_MAGIC, errors0)

(***************************************************************************)
(* SpecValidate: validate_htf on byte strings that were not built by the   *)
(* writer: a header with any of four magics and a count of domains, a      *)
(* table of one or two equal entries (the first primary) that point at     *)
(* any place, 32 bytes of payload, total size and checksum filled in, and  *)
(* the whole cut at some length.                                           *)
(***************************************************************************)
RawMagics == {HTF3_MAGIC, HTF_MAGIC, HTF1_MAGIC, <<88, 88, 88, 88>>}
RawCounts == {0, 1, 2, 9}
RawTypes == {HTF_DOMAIN_TEXT, HTF_DOMAIN_AUDIO, 7}
RawOffsets == {64, 96, 1000}
RawSizes == {0, 16, 32, 64}
RawCuts == {0, 31, 32, 63, 1000}

RawEntry(domain_type, flags, data_offset, data_size) ==
    <<domain_type, flags, 0, 0>> \o LEBytes(0, 4) \o LEBytes(data_offset, 8)
      \o LEBytes(data_size, 8) \o Zeros(8)

RawHtf(magic, n, domain_type, data_offset, data_size) ==
    LET table == IF n = 0 THEN <<>>
                 ELSE RawEntry(domain_type, HTF_FLAG_IS_PRIMARY, data_offset, data_size)
                        \o (IF n = 1 THEN <<>>
                            ELSE RawEntry(domain_type, 0, data_offset, data_size))
        total == HTF_HEADER_SIZE + Len(table) + 32
        body == magic \o LEBytes(HTF3_VERSION, 2) \o <<0, 0, n>> \o Zeros(7)
                  \o LEBytes(total, 8) \o Zeros(8) \o table \o Zeros(32)
    IN WriteAt(body, 24, LEBytes(compute_htf_checksum(body), 8))

RawInputs ==
    {SubSeq(RawHtf(m, n, t, o, z), 1, MinOf(c, Len(RawHtf(m, n, t, o, z)))) :
        m \in RawMagics, n \in RawCounts, t \in RawTypes, o \in RawOffsets,
        z \in RawSizes, c \in RawCuts}

InitValidate ==
    /\ HnfWriter_create
    /\ HTFWriter_new
    /\ HqsIdle
    /\ PackIdle
    /\ DecIdle
    /\ NameIdle
    /\ DriverIdle
    /\ checked \in RawInputs
    /\ report = <<>>

\* One call of validate_htf on the bytes.
Validate ==
    /\ report = <<>>
    /\ report' = validate_htf(checked)
    /\ UNCHANGED <<checked, hnf_vars, htf_vars, hqs_vars, pack_vars, dec_vars,
                   name_vars, driver_vars>>

SpecValidate == InitValidate /\ [][Validate]_vars

\* The table of the checked bytes is whole: validate_htf reaches its loop.
TableReadable ==
    /\ Len(checked) >= HTF_HEADER_SIZE
    /\ KnownMagic(checked)
    /\ checked[9] \in 1..MAX_DOMAINS
    /\ Len(checked) >= HTF_HEADER_SIZE + checked[9] * HTF_DOMAIN_ENTRY_SIZE

\* C29: validate_htf returns a result for every byte string and reads
\* nothing outside it; bytes shorter than 32 or with an unknown magic are
\* reported invalid; a domain entry whose data_offset + data_size is beyond
\* the length of the bytes is reported as an error and its payload is not
\* read.
C29_ValidateTotal ==
    report # <<>> =>
        /\ report.returned
        /\ (Len(checked) < HTF_HEADER_SIZE \/ ~KnownMagic(checked))
              => ~report.valid
        /\ TableReadable =>
              \A i \in 0..(checked[9] - 1) :
                  LET d == ReadDomain(checked, i) IN
                  d.data_offset + d.data_size > Len(checked) =>
                      /\ <<"Domain data exceeds file bounds", i>> \in report.errors
                      /\ i \notin report.payload_read

(***************************************************************************)
(* SpecBuilt: validate_htf on what build returns.  The writer takes up to  *)
(* MaxDomains domains of any kind, or one domain of any kind and then text *)
(* domains that are not primary and have no vocabulary, up to MAX_DOMAINS  *)
(* in all.                                                                 *)
(***************************************************************************)
AddPlainTextDomain ==
    /\ report = <<>>
    /\ Len(domains) >= MaxDomains
    /\ Len(domains) < MAX_DOMAINS
    /\ \A i \in 2..Len(domains) :
           domains[i] = DomainEntry(use_v13, HTF_DOMAIN_TEXT, {}, <<>>, FALSE)
    /\ add_text_domain({}, <<>>, FALSE)

\* validate_htf(&writer.build())
ValidateBuilt ==
    /\ Built
    /\ report = <<>>
    /\ checked' = blob
    /\ report' = validate_htf(blob)
    /\ UNCHANGED <<hnf_vars, htf_vars, hqs_vars, pack_vars, dec_vars,
                   name_vars, driver_vars>>

\* The calls on the writer come before the validation of its blob.
AddTextDomainFirst == report = <<>> /\ AddTextDomain
AddCodeDomainFirst == report = <<>> /\ AddCodeDomain
AddAudioDomainFirst == report = <<>> /\ AddAudioDomain
BuildFirst == report = <<>> /\ Build

NextBuilt ==
    \/ AddTextDomainFirst
    \/ AddCodeDomainFirst
    \/ AddAudioDomainFirst
    \/ AddPlainTextDomain
    \/ BuildFirst
    \/ ValidateBuilt

SpecBuilt == InitHtf /\ [][NextBuilt]_vars

\* The domains of the writer that were added as primary.
PrimaryDomains ==
    {i \in 1..Len(domains) : FlagsHas(domains[i].domain_flags, HTF_FLAG_IS_PRIMARY)}

====
